---- MODULE Spec2Model ----
(***************************************************************************)
(* A model of the kubragen core: Data wrappers and DataClean (data.py),   *)
(* the dict/list mergers (merger.py), option stores and option_root_get   *)
(* (options.py) and the filtered JSON patches (jsonpatch.py).             *)
(*                                                                         *)
(* Python objects live in a heap: heap[i] is the object with identity i.  *)
(* A value is either an immutable scalar, written inline, or a reference  *)
(* to a heap object, so that in-place mutation, aliasing and deepcopy are *)
(* what they are in the program.                                           *)
(***************************************************************************)
EXTENDS Integers, Sequences, FiniteSets, TLC

VARIABLES
    heap,    \* the objects: a sequence of nodes, heap[i] has identity i
    cur,     \* the value the caller holds and passes to the next call
    op,      \* the last operation called ("init" before any call)
    arg,     \* the argument of the last call
    ret,     \* the value the last call returned (None when it raised)
    exc,     \* the exception the last call raised, "" when it returned
    excPath, \* the dotted path the exception names, as a sequence of keys
    h0,      \* the heap as it was when the last call started
    calls,   \* the number of calls made so far
    store,   \* the option store under test, or the operands of a merge
    docs     \* the documents and patch specs under test

vars == <<heap, cur, op, arg, ret, exc, excPath, h0, calls, store, docs>>

-----------------------------------------------------------------------------
(* Bounds *)

MaxSize == 4

\* The number of different texts the strings under test have
MaxText == 2

-----------------------------------------------------------------------------
(* Values and heap nodes *)

None == [k |-> "NoneType", n |-> 0]
IntV(i) == [k |-> "int", n |-> i]
\* The callables in use: the i-th is written FunctionV(i). The first three
\* are filters of documents, the fourth is the valuefunc
\* lambda name, base_option: base_option of an OptionValueCallable
FunctionV(i) == [k |-> "function", n |-> i]
StrV(i) == [k |-> "str", n |-> i]
FloatV(i) == [k |-> "float", n |-> i]
BoolV(i) == [k |-> "bool", n |-> i]
Ref(i) == [k |-> "ref", n |-> i]
IsRef(v) == v.k = "ref"

\* A heap object. kind is the Python class; keys/vals are a dict's items in
\* insertion order, vals alone a list's elements or an instance's attributes.
Node(kind, keys, vals, enabled) ==
    [kind |-> kind, keys |-> keys, vals |-> vals, enabled |-> enabled]

TypeOf(h, v) == IF IsRef(v) THEN h[v.n].kind ELSE v.k

\* The class hierarchy of the values the model uses (class, base class).
SubclassPairs ==
    { <<"bool", "int">>, <<"Object", "dict">>,
      <<"DisabledData", "Data">>, <<"ValueData", "Data">>,
      <<"MergeData", "Data">>, <<"ConfigDataMerge", "ValueData">>,
      <<"ConfigDataMerge", "Data">>,
      <<"HelperStr", "str">>, <<"QuotedStr", "HelperStr">>,
      <<"QuotedStr", "str">>, <<"LiteralStr", "HelperStr">>,
      <<"LiteralStr", "str">>,
      <<"SingleQuotedStr", "HelperStr">>, <<"SingleQuotedStr", "str">>,
      <<"DoubleQuotedStr", "HelperStr">>, <<"DoubleQuotedStr", "str">>,
      <<"FoldedStr", "HelperStr">>, <<"FoldedStr", "str">>,
      <<"ObjectFilter", "ObjectFilterBase">>,
      <<"OptionDef", "Option">>, <<"OptionRoot", "Option">>,
      <<"OptionValue", "Option">>, <<"OptionDefaultValue", "OptionValue">>,
      <<"OptionDefaultValue", "Option">>,
      <<"OptionValueCallable", "OptionValue">>,
      <<"OptionValueCallable", "Option">> }

Subclass(t, u) == t = u \/ <<t, u>> \in SubclassPairs

IsInstance(h, v, typ) == Subclass(TypeOf(h, v), typ)

IsData(h, v) == IsInstance(h, v, "Data")
IsMapping(h, v) == IsInstance(h, v, "dict")
IsSequence(h, v) == IsInstance(h, v, "list")

\* The outcome of a call: the heap it leaves, the value it returns, and the
\* exception it raises ("" when it returns) with the path the message names.
Ok(h, v) == [h |-> h, v |-> v, e |-> "", p |-> <<>>]
Raise(h, e, p) == [h |-> h, v |-> None, e |-> e, p |-> p]

SeqRemove(s, i) == SubSeq(s, 1, i - 1) \o SubSeq(s, i + 1, Len(s))

HasKey(node, key) == \E i \in 1..Len(node.keys) : node.keys[i] = key
KeyIndex(node, key) == CHOOSE i \in 1..Len(node.keys) : node.keys[i] = key
GetItem(node, key) == node.vals[KeyIndex(node, key)]

\* base[key] = v
DictSet(h, id, key, v) ==
    IF HasKey(h[id], key)
    THEN [h EXCEPT ![id].vals[KeyIndex(h[id], key)] = v]
    ELSE [h EXCEPT ![id].keys = Append(@, key), ![id].vals = Append(@, v)]

\* del data[i], for the i-th entry of a dict or the i-th element of a list
DelEntry(h, id, i) ==
    [h EXCEPT ![id].keys = IF Len(@) = 0 THEN @ ELSE SeqRemove(@, i),
              ![id].vals = SeqRemove(@, i)]

Alloc(h, node) == [h |-> Append(h, node), v |-> Ref(Len(h) + 1)]

-----------------------------------------------------------------------------
(* copy.deepcopy, as DataClean(in_place=False) uses it *)

RECURSIVE deepcopy(_, _, _), deepcopy_items(_, _, _, _), deepcopy_item(_, _, _)

\* Stores the copy r of the i-th item in the new object, then copies the rest.
deepcopy_item(r, new, i) ==
    deepcopy_items([r.h EXCEPT ![new].vals[i] = r.v], r.memo, new, i + 1)

\* Copies the i-th and later attributes/elements of the new object `new`.
deepcopy_items(h, memo, new, i) ==
    IF i > Len(h[new].vals) THEN [h |-> h, memo |-> memo, v |-> Ref(new)]
    ELSE deepcopy_item(deepcopy(h, memo, h[new].vals[i]), new, i)

\* memo maps the identity of a copied object to the identity of its copy:
\* an object met twice is copied once. Scalars are immutable and shared.
deepcopy(h, memo, v) ==
    IF ~IsRef(v) THEN [h |-> h, memo |-> memo, v |-> v]
    ELSE IF v.n \in DOMAIN memo THEN [h |-> h, memo |-> memo, v |-> Ref(memo[v.n])]
    ELSE deepcopy_items(Append(h, h[v.n]), (v.n :> (Len(h) + 1)) @@ memo, Len(h) + 1, 1)

-----------------------------------------------------------------------------
(* The mergers: deepmerge.Merger configured as in merger.py *)

STRATEGY_END == [k |-> "STRATEGY_END", n |-> 0]

RECURSIVE value_strategy(_, _, _, _, _), strategy_merge(_, _, _, _, _, _),
          strategy_merge_set(_, _, _, _, _, _)

\* private/merger.py: every key of nxt must exist in base
option_check_key_exist(h, path, base, nxt) ==
    LET missing == { i \in 1..Len(h[nxt.n].keys) : ~HasKey(h[base.n], h[nxt.n].keys[i]) }
    IN IF missing = {} THEN Ok(h, STRATEGY_END)
       ELSE LET i == CHOOSE j \in missing : \A m \in missing : j <= m
            IN Raise(h, "OptionError", path \o <<h[nxt.n].keys[i]>>)

\* A type-conflict strategy that lets the incoming value win
option_type_conflict_override(h, path, base, nxt) == Ok(h, nxt)

\* private/merger.py: the type-conflict strategy of both mergers
option_type_conflict(h, path, base, nxt) == Raise(h, "MergeError", path)

\* private/merger.py: second fallback strategy, after 'override'
option_merge_fallback(h, path, base, nxt) == Raise(h, "MergeError fallback", path)

\* A list strategy that puts the incoming elements first
strategy_prepend(h, base, nxt) ==
    Alloc(h, Node("list", <<>>, h[nxt.n].vals \o h[base.n].vals, TRUE))

\* (list, "append"): base + nxt, a new list
strategy_append(h, base, nxt) ==
    Alloc(h, Node("list", <<>>, h[base.n].vals \o h[nxt.n].vals, TRUE))

\* base[k] = config.value_strategy(path + [k], base[k], v), then the next item
strategy_merge_set(r, merger, path, base, nxt, i) ==
    IF r.e # "" THEN r
    ELSE strategy_merge(DictSet(r.h, base.n, r.h[nxt.n].keys[i], r.v), merger, path,
                        base, nxt, i + 1)

\* A dict strategy that sets every key to the incoming value
RECURSIVE strategy_merge_override(_, _, _, _, _, _)
strategy_merge_override(h, merger, path, base, nxt, i) ==
    IF i > Len(h[nxt.n].keys) THEN Ok(h, base)
    ELSE strategy_merge_override(DictSet(h, base.n, h[nxt.n].keys[i], h[nxt.n].vals[i]),
                                 merger, path, base, nxt, i + 1)

\* (dict, "merge"): for k, v in nxt.items(): create the key or merge the values
strategy_merge(h, merger, path, base, nxt, i) ==
    IF i > Len(h[nxt.n].keys) THEN Ok(h, base)
    ELSE IF ~HasKey(h[base.n], h[nxt.n].keys[i])
    THEN strategy_merge(DictSet(h, base.n, h[nxt.n].keys[i], h[nxt.n].vals[i]),
                        merger, path, base, nxt, i + 1)
    ELSE strategy_merge_set(
             value_strategy(h, merger, path \o <<h[nxt.n].keys[i]>>,
                            GetItem(h[base.n], h[nxt.n].keys[i]), h[nxt.n].vals[i]),
             merger, path, base, nxt, i)

\* The dict strategies without option_check_key_exist
dict_strategies_nocheck(h, merger, path, base, nxt) ==
    strategy_merge(h, merger, path, base, nxt, 1)

\* The dict strategies of the merger: MergerNoCreate checks the keys first.
dict_strategies(h, merger, path, base, nxt) ==
    IF merger = "MergerNoCreate"
    THEN LET c == option_check_key_exist(h, path, base, nxt)
         IN IF c.e # "" \/ c.v # STRATEGY_END THEN c
            ELSE strategy_merge(h, merger, path, base, nxt, 1)
    ELSE strategy_merge(h, merger, path, base, nxt, 1)

\* ['override', option_merge_fallback]: the first strategy with a result wins
fallback_strategies(h, path, base, nxt) ==
    IF nxt # STRATEGY_END THEN Ok(h, nxt)
    ELSE option_merge_fallback(h, path, base, nxt)

value_strategy(h, merger, path, base, nxt) ==
    IF ~(IsInstance(h, base, TypeOf(h, nxt)) \/ IsInstance(h, nxt, TypeOf(h, base)))
    THEN option_type_conflict(h, path, base, nxt)
    ELSE IF IsInstance(h, nxt, "list")
         THEN LET a == strategy_append(h, base, nxt) IN Ok(a.h, a.v)
    ELSE IF IsInstance(h, nxt, "dict") THEN dict_strategies(h, merger, path, base, nxt)
    ELSE fallback_strategies(h, path, base, nxt)

merge(h, merger, base, nxt) == value_strategy(h, merger, <<>>, base, nxt)

-----------------------------------------------------------------------------
(* data.py: the Data classes *)

\* Data.is_enabled
is_enabled(h, v) ==
    CASE TypeOf(h, v) = "DisabledData" -> FALSE
      [] TypeOf(h, v) = "MergeData" -> TRUE
      [] OTHER -> h[v.n].enabled

\* ConfigDataMerge.get_value: the merge's result m is dropped, ret is returned
ConfigDataMerge_merged(m, value) == IF m.e # "" THEN m ELSE Ok(m.h, value)

\* Data.get_value. A ConfigDataMerge holds <<value, default_merge, config>>
\* and merges config's value, or else default_merge, into its own value.
get_value(h, v) ==
    CASE TypeOf(h, v) = "DisabledData" -> Ok(h, None)
      [] TypeOf(h, v) = "ConfigDataMerge" ->
            IF IsInstance(h, h[v.n].vals[3], "MergeData")
            THEN ConfigDataMerge_merged(
                     merge(h, "Merger", h[v.n].vals[1], h[h[v.n].vals[3].n].vals[1]),
                     h[v.n].vals[1])
            ELSE IF h[v.n].vals[2] # None
            THEN ConfigDataMerge_merged(
                     merge(h, "Merger", h[v.n].vals[1], h[v.n].vals[2]), h[v.n].vals[1])
            ELSE Ok(h, h[v.n].vals[1])
      [] OTHER -> Ok(h, h[v.n].vals[1])

RECURSIVE DataIsNone(_, _), DataIsNone_value(_)

DataIsNone_value(g) == DataIsNone(g.h, g.v)

DataIsNone(h, value) ==
    IF IsData(h, value)
    THEN IF ~is_enabled(h, value) THEN TRUE
         ELSE DataIsNone_value(get_value(h, value))
    ELSE value = None

RECURSIVE DataGetValue(_, _, _), DataGetValue_value(_)

\* return DataGetValue(value.get_value()): raise_if_disabled is not passed on,
\* so the recursive call takes the default, False
DataGetValue_value(g) == IF g.e # "" THEN g ELSE DataGetValue(g.h, g.v, FALSE)

DataGetValue(h, value, raise_if_disabled) ==
    IF IsData(h, value)
    THEN IF ~is_enabled(h, value)
         THEN IF raise_if_disabled THEN Raise(h, "InvalidOperationError", <<>>)
              ELSE Ok(h, None)
         ELSE DataGetValue_value(get_value(h, value))
    ELSE Ok(h, value)

\* data[key] = data[key].get_value()
DataCleanProp_set(g, id, i) ==
    IF g.e # "" THEN g ELSE Ok([g.h EXCEPT ![id].vals[i] = g.v], None)

\* DataCleanProp that sets a disabled entry to None where the code deletes it
DataCleanProp_null(h, id, i) ==
    IF IsData(h, h[id].vals[i])
    THEN IF ~is_enabled(h, h[id].vals[i])
         THEN Ok([h EXCEPT ![id].vals[i] = None], None)
         ELSE DataCleanProp_set(get_value(h, h[id].vals[i]), id, i)
    ELSE Ok(h, None)

\* DataCleanProp(data, key), key being the i-th key of a dict or the index i
DataCleanProp(h, id, i) ==
    IF IsData(h, h[id].vals[i])
    THEN IF ~is_enabled(h, h[id].vals[i]) THEN Ok(DelEntry(h, id, i), None)
         ELSE DataCleanProp_set(get_value(h, h[id].vals[i]), id, i)
    ELSE Ok(h, None)

RECURSIVE DataClean(_, _, _), DataClean_walk(_, _), DataClean_items(_, _, _),
          DataClean_items_next(_, _, _), DataClean_props_mapping(_, _, _, _),
          DataClean_props_mapping_next(_, _, _, _), DataClean_props_sequence(_, _, _),
          DataClean_props_sequence_next(_, _, _), DataClean_after_props(_, _),
          DataClean_after_items(_, _)

DataClean_props_mapping_next(r, id, keylist, j) ==
    IF r.e # "" THEN r ELSE DataClean_props_mapping(r.h, id, keylist, j + 1)

\* for key in keylist: DataCleanProp(data, key)
DataClean_props_mapping(h, id, keylist, j) ==
    IF j > Len(keylist) THEN Ok(h, None)
    ELSE DataClean_props_mapping_next(
             DataCleanProp(h, id, KeyIndex(h[id], keylist[j])), id, keylist, j)

DataClean_props_sequence_next(r, id, i) ==
    IF r.e # "" THEN r ELSE DataClean_props_sequence(r.h, id, i - 1)

\* for key in range(len(data) - 1, -1, -1): DataCleanProp(data, key)
DataClean_props_sequence(h, id, i) ==
    IF i < 1 THEN Ok(h, None)
    ELSE DataClean_props_sequence_next(DataCleanProp(h, id, i), id, i)

DataClean_items_next(r, id, i) ==
    IF r.e # "" THEN r ELSE DataClean_items(r.h, id, i + 1)

\* for item in data.values() / for item in data: DataClean(item)
DataClean_items(h, id, i) ==
    IF i > Len(h[id].vals) THEN Ok(h, None)
    ELSE DataClean_items_next(DataClean(h, h[id].vals[i], TRUE), id, i)

\* return DataGetValue(data), once the items are cleaned
DataClean_after_items(q, data) ==
    IF q.e # "" THEN q ELSE DataGetValue(q.h, data, FALSE)

\* the second loop, once the first has cleaned the container's own entries
DataClean_after_props(p, data) ==
    IF p.e # "" THEN p ELSE DataClean_after_items(DataClean_items(p.h, data.n, 1), data)

\* The body of DataClean, on the data to mutate.
DataClean_walk(h, data) ==
    IF IsMapping(h, data)
    THEN DataClean_after_props(
             DataClean_props_mapping(h, data.n, h[data.n].keys, 1), data)
    ELSE IF IsSequence(h, data)
    THEN DataClean_after_props(
             DataClean_props_sequence(h, data.n, Len(h[data.n].vals)), data)
    ELSE DataGetValue(h, data, FALSE)

\* data = copy.deepcopy(data)
DataClean_copy(c) == DataClean_walk(c.h, c.v)

\* DataClean that walks the caller's data whatever in_place says
DataClean_nocopy(h, data, in_place) == DataClean_walk(h, data)

DataClean(h, data, in_place) ==
    IF in_place THEN DataClean_walk(h, data)
    ELSE DataClean_copy(deepcopy(h, <<>>, data))

-----------------------------------------------------------------------------
(* Input trees: literals the caller writes, built into the heap *)

\* A literal: a scalar (kind is its type, n its value) or an object with the
\* literals of its items (sub), a dict's keys, and a Data's enabled flag.
Lit(kind, n, keys, sub, enabled) ==
    [kind |-> kind, n |-> n, keys |-> keys, sub |-> sub, enabled |-> enabled]

ScalarLit(v) == Lit(v.k, v.n, <<>>, <<>>, TRUE)
ListLit(sub) == Lit("list", 0, <<>>, sub, TRUE)
DictLit(keys, sub) == Lit("dict", 0, keys, sub, TRUE)
ValueDataLit(value, enabled) == Lit("ValueData", 0, <<>>, <<value>>, enabled)
DisabledDataLit == Lit("DisabledData", 0, <<>>, <<>>, FALSE)
MergeDataLit(value) == Lit("MergeData", 0, <<>>, <<value>>, TRUE)
ConfigDataMergeLit(value, enabled, default_merge, config) ==
    Lit("ConfigDataMerge", 0, <<>>, <<value, default_merge, config>>, enabled)

\* helper.py: str and the classes of tagged strings
StrClasses ==
    {"str", "HelperStr", "QuotedStr", "SingleQuotedStr", "DoubleQuotedStr", "FoldedStr",
     "LiteralStr"}

IsScalarLit(t) ==
    t.kind \in {"NoneType", "int", "float", "bool", "type", "function", "patch"}
                \cup StrClasses

RECURSIVE NodeCount(_), SumCounts(_, _), Nodes(_, _), SubNodes(_, _, _),
          SubValues(_, _, _)

\* The number of objects a literal creates, and that its first k items create
NodeCount(t) == IF IsScalarLit(t) THEN 0 ELSE 1 + SumCounts(t.sub, Len(t.sub))
SumCounts(sub, k) == IF k = 0 THEN 0 ELSE SumCounts(sub, k - 1) + NodeCount(sub[k])

\* The value of a literal evaluated when base objects exist: an object is
\* created once its items are.
ValueAt(t, base) ==
    IF IsScalarLit(t) THEN [k |-> t.kind, n |-> t.n] ELSE Ref(base + NodeCount(t))

\* The values of the first k literals of sub, evaluated left to right
SubValues(sub, base, k) ==
    IF k = 0 THEN <<>>
    ELSE Append(SubValues(sub, base, k - 1),
                ValueAt(sub[k], base + SumCounts(sub, k - 1)))

\* The objects the first k literals of sub create, in creation order
SubNodes(sub, base, k) ==
    IF k = 0 THEN <<>>
    ELSE SubNodes(sub, base, k - 1) \o Nodes(sub[k], base + SumCounts(sub, k - 1))

\* The objects a literal creates: those of its items, then the object itself
Nodes(t, base) ==
    IF IsScalarLit(t) THEN <<>>
    ELSE Append(SubNodes(t.sub, base, Len(t.sub)),
                IF t.kind = "Object"
                THEN Node(t.kind, t.keys, SubValues(t.sub, base, Len(t.sub)), t.enabled)
                       @@ [attrs |-> t.attrs]
                ELSE Node(t.kind, t.keys, SubValues(t.sub, base, Len(t.sub)), t.enabled))

\* Evaluates a literal in heap h.
Build(h, t) == [h |-> h \o Nodes(t, Len(h)), v |-> ValueAt(t, Len(h))]

\* Evaluates the literals of sub left to right, collecting their values.
BuildAll(h, sub) ==
    [h |-> h \o SubNodes(sub, Len(h), Len(sub)), vs |-> SubValues(sub, Len(h), Len(sub))]

\* The ConfigDataMerge instances the inputs use: a dict payload with a
\* default to merge, a list payload, a config that replaces the default, and
\* a payload that conflicts with its default.
ConfigDataMergeLits ==
    { ConfigDataMergeLit(DictLit(<<"a">>, <<ScalarLit(IntV(1))>>), TRUE,
                         DictLit(<<"b">>, <<ScalarLit(IntV(2))>>), ScalarLit(None)),
      ConfigDataMergeLit(ListLit(<<ScalarLit(IntV(1))>>), TRUE,
                         ListLit(<<ScalarLit(IntV(2))>>), ScalarLit(None)),
      ConfigDataMergeLit(DictLit(<<"a">>, <<ScalarLit(IntV(1))>>), TRUE,
                         DictLit(<<"b">>, <<ScalarLit(IntV(2))>>),
                         MergeDataLit(DictLit(<<"a">>, <<ScalarLit(IntV(3))>>))),
      ConfigDataMergeLit(ScalarLit(IntV(1)), TRUE,
                         DictLit(<<"b">>, <<ScalarLit(IntV(2))>>), ScalarLit(None)),
      ConfigDataMergeLit(DictLit(<<"a">>, <<ListLit(<<ScalarLit(IntV(1))>>)>>), TRUE,
                         DictLit(<<"a">>, <<ListLit(<<ScalarLit(IntV(2))>>)>>),
                         ScalarLit(None)) }

KeySeqs == { <<>>, <<"a">>, <<"b">>, <<"a", "b">> }

RECURSIVE Forests(_, _, _), LitLevels(_)

\* The size of a literal is the number of values written in it, scalars
\* included. levels[n] is the set of the objects' literals of size n.
\* The literal of a slot: the i-th slot holds the scalar i, or an object.
LitsAt(levels, n, i) ==
    IF n = 1 THEN { ScalarLit(IntV(i)) } \cup levels[1] ELSE levels[n]

\* The sequences of len literals of size n in all.
Forests(levels, n, len) ==
    IF len = 0 THEN (IF n = 0 THEN { <<>> } ELSE {})
    ELSE UNION { { Append(f, t) : f \in Forests(levels, n - m, len - 1),
                                  t \in LitsAt(levels, m, len) } : m \in 1..n }

\* The objects' literals of size Len(levels) + 1
\* (a ConfigDataMerge counts as two values).
LitsOfSize(levels) ==
    UNION { { ListLit(f) : f \in Forests(levels, Len(levels), len) }
            : len \in 0..Len(levels) }
    \cup UNION { { DictLit(ks, f) : f \in Forests(levels, Len(levels), Len(ks)) }
                 : ks \in KeySeqs }
    \cup (IF Len(levels) = 0 THEN { DisabledDataLit }
          ELSE { ValueDataLit(c, en) : c \in LitsAt(levels, Len(levels), 1),
                                       en \in BOOLEAN })
    \cup (IF Len(levels) = 1
          THEN { ValueDataLit(ScalarLit(None), TRUE) } \cup ConfigDataMergeLits
          ELSE {})

LitLevels(levels) ==
    IF Len(levels) >= MaxSize THEN levels
    ELSE LitLevels(Append(levels, LitsOfSize(levels)))

Levels == LitLevels(<<>>)

\* The objects' literals of size up to n
LitsUpTo(n) == UNION { Levels[m] : m \in 1..n }

DataInputs == LitsUpTo(MaxSize)

-----------------------------------------------------------------------------
(* Reading a heap value back as a literal, to compare trees by content *)

RECURSIVE TreeOf(_, _)

TreeOf(h, v) ==
    IF ~IsRef(v) THEN ScalarLit(v)
    ELSE Lit(h[v.n].kind, 0, h[v.n].keys,
             [i \in 1..Len(h[v.n].vals) |-> TreeOf(h, h[v.n].vals[i])],
             h[v.n].enabled)

-----------------------------------------------------------------------------
(* The Data specification: a caller resolves or cleans a tree *)

NoStore == <<>>
NoDocs == <<>>

InitData_built(b) ==
    /\ heap = b.h
    /\ cur = b.v
    /\ h0 = b.h

InitData ==
    /\ \E t \in DataInputs : InitData_built(Build(<<>>, t))
    /\ op = "init"
    /\ arg = None
    /\ ret = None
    /\ exc = ""
    /\ excPath = <<>>
    /\ calls = 0
    /\ store = NoStore
    /\ docs = NoDocs

\* The caller's call returns r (or raises r.e); keep says whether the caller
\* keeps its value or replaces it by the returned one.
Returned(name, a, r, keep) ==
    /\ op' = name
    /\ arg' = a
    /\ heap' = r.h
    /\ ret' = r.v
    /\ exc' = r.e
    /\ excPath' = r.p
    /\ h0' = heap
    /\ calls' = calls + 1
    /\ cur' = IF keep \/ r.e # "" THEN cur ELSE r.v

\* x = DataClean(x): a first call on the input, a second on the first's result
CallDataClean ==
    /\ calls \in {0, 1}
    /\ op \in {"init", "DataClean"}
    /\ exc = ""
    /\ Returned("DataClean", cur, DataClean(heap, cur, TRUE), FALSE)
    /\ UNCHANGED <<store, docs>>

\* y = DataClean(x, in_place=False)
CallDataCleanCopy ==
    /\ calls = 0
    /\ Returned("DataCleanCopy", cur, DataClean(heap, cur, FALSE), TRUE)
    /\ UNCHANGED <<store, docs>>

\* y = DataGetValue(x, raise_if_disabled)
CallDataGetValue ==
    /\ calls = 0
    /\ \E raise_if_disabled \in BOOLEAN :
          Returned(IF raise_if_disabled THEN "DataGetValueRaise" ELSE "DataGetValue",
                   cur, DataGetValue(heap, cur, raise_if_disabled), TRUE)
    /\ UNCHANGED <<store, docs>>

\* y = x.get_value(), of a ConfigDataMerge x: a first call, then a second
CallGetValue ==
    /\ calls \in {0, 1}
    /\ op \in {"init", "get_value"}
    /\ exc = ""
    /\ TypeOf(heap, cur) = "ConfigDataMerge"
    /\ Returned("get_value", cur, get_value(heap, cur), TRUE)
    /\ UNCHANGED <<store, docs>>

NextData == CallDataClean \/ CallDataCleanCopy \/ CallDataGetValue \/ CallGetValue

SpecData == InitData /\ [][NextData]_vars

-----------------------------------------------------------------------------
(* Option stores: option.py, util.py, private/options.py, options.py *)

\* An instance's attribute
Attr(h, v, name) == GetItem(h[v.n], name)

True == BoolV(1)
False == BoolV(0)

\* The option names in use, in dot format, and their chunks: name.split('.').
\* The str that is the i-th name is written StrV(-i).
OptionNames == << <<"a">>, <<"a", "b">>, <<"c">>, <<"a", "c">> >>
NameStr(i) == StrV(0 - i)
split(name) == OptionNames[0 - name.n]

\* The classes an allowed_types list names; the i-th is written TypeV(i).
TypeNames == <<"int", "str", "float", "dict", "list">>
TypeV(i) == [k |-> "type", n |-> i]

\* The exception classes options.py imports from kubragen.exception; any
\* other exception name in options.py is Python's builtin.
options_imports == {"OptionError"}
options_exception(name) ==
    IF name \in options_imports THEN name
    ELSE IF name = "TypeError" THEN "builtins.TypeError"
    ELSE "builtins.Exception"

\* chunk in current_data, for a str (the chunk occurs in its text: the texts
\* of the option names hold their chunks, the other texts none) and for a
\* list (an element equals the chunk)
StrContains(v, chunk) ==
    v.n < 0 /\ \E i \in 1..Len(OptionNames[0 - v.n]) : OptionNames[0 - v.n][i] = chunk
ListContains(h, v, chunk) ==
    \E i \in 1..Len(h[v.n].vals) :
        /\ IsInstance(h, h[v.n].vals[i], "str")
        /\ h[v.n].vals[i].n < 0
        /\ OptionNames[0 - h[v.n].vals[i].n] = <<chunk>>

\* chunk in current_data, for a value that is no mapping: a str and a list
\* answer, any other value raises TypeError
Contains(h, current_data, chunk) ==
    IF IsInstance(h, current_data, "str")
    THEN Ok(h, IF StrContains(current_data, chunk) THEN True ELSE False)
    ELSE IF IsSequence(h, current_data)
    THEN Ok(h, IF ListContains(h, current_data, chunk) THEN True ELSE False)
    ELSE Raise(h, "builtins.TypeError", <<>>)

RECURSIVE dict_has_name(_, _, _, _), dict_get_value(_, _, _, _)

\* if chunk not in current_data: return False
\* current_data = current_data.get(chunk, {}), which a str and a list lack
dict_has_name_in(c) ==
    IF c.e # "" THEN c
    ELSE IF c.v = False THEN c
    ELSE Raise(c.h, "builtins.AttributeError", <<>>)

\* dict_has_name(dict, name), at the i-th chunk of the name
dict_has_name(h, current_data, chunks, i) ==
    IF i > Len(chunks) THEN Ok(h, True)
    ELSE IF IsMapping(h, current_data)
    THEN IF ~HasKey(h[current_data.n], chunks[i]) THEN Ok(h, False)
         ELSE dict_has_name(h, GetItem(h[current_data.n], chunks[i]), chunks, i + 1)
    ELSE dict_has_name_in(Contains(h, current_data, chunks[i]))

\* if chunk not in current_data: raise OptionError
\* current_data = current_data.get(chunk, {}), which a str and a list lack
dict_get_value_in(c, chunks) ==
    IF c.e # "" THEN c
    ELSE IF c.v = False THEN Raise(c.h, "OptionError", chunks)
    ELSE Raise(c.h, "builtins.AttributeError", <<>>)

\* dict_get_value(dict, name), at the i-th chunk of the name
dict_get_value(h, current_data, chunks, i) ==
    IF i > Len(chunks) THEN Ok(h, current_data)
    ELSE IF IsMapping(h, current_data)
    THEN IF ~HasKey(h[current_data.n], chunks[i]) THEN Raise(h, "OptionError", chunks)
         ELSE dict_get_value(h, GetItem(h[current_data.n], chunks[i]), chunks, i + 1)
    ELSE IF ~(IsSequence(h, current_data) \/ IsInstance(h, current_data, "str"))
    THEN Raise(h, "OptionError", chunks)
    ELSE dict_get_value_in(Contains(h, current_data, chunks[i]), chunks)

\* isinstance(value, t) for some t of allowed_types, from the i-th on
RECURSIVE is_allowed_types_found(_, _, _, _)
is_allowed_types_found(h, value, types, i) ==
    IF i > Len(types) THEN FALSE
    ELSE IF types[i] = None THEN value = None \/ is_allowed_types_found(h, value, types, i + 1)
    ELSE \/ IsInstance(h, value, TypeNames[types[i].n])
         \/ is_allowed_types_found(h, value, types, i + 1)

is_allowed_types(h, value, allowed_types, required) ==
    IF value = None /\ required # None THEN required # True
    ELSE IF allowed_types = None THEN TRUE
    ELSE is_allowed_types_found(h, value, h[allowed_types.n].vals, 1)

RECURSIVE _options_checkdefinitions(_, _, _, _, _),
          _options_checkdefinitions_next(_, _, _, _, _)

\* after the recursive call on the i-th item
_options_checkdefinitions_next(r, path, defined_options, options, i) ==
    IF r.e # "" THEN r
    ELSE _options_checkdefinitions(r.h, path, defined_options, options, i + 1)

\* _options_checkdefinitions(path, defined_options, options), at the i-th
\* item of options
_options_checkdefinitions(h, path, defined_options, options, i) ==
    IF defined_options = None \/ options = None THEN Ok(h, None)
    ELSE IF ~IsMapping(h, options) THEN Raise(h, "builtins.AttributeError", path)
    ELSE IF i > Len(h[options.n].keys) THEN Ok(h, None)
    ELSE IF ~IsMapping(h, defined_options) THEN Raise(h, "builtins.TypeError", path)
    ELSE IF ~HasKey(h[defined_options.n], h[options.n].keys[i])
    THEN Raise(h, "OptionError", Append(path, h[options.n].keys[i]))
    ELSE IF IsInstance(h, GetItem(h[defined_options.n], h[options.n].keys[i]), "Option")
    THEN _options_checkdefinitions(h, path, defined_options, options, i + 1)
    ELSE IF IsMapping(h, h[options.n].vals[i])
    THEN _options_checkdefinitions_next(
             _options_checkdefinitions(h, Append(path, h[options.n].keys[i]),
                 GetItem(h[defined_options.n], h[options.n].keys[i]),
                 h[options.n].vals[i], 1),
             path, defined_options, options, i)
    ELSE _options_checkdefinitions(h, path, defined_options, options, i + 1)

OptionsCheckDefinitions(h, defined_options, options) ==
    _options_checkdefinitions(h, <<>>, defined_options, options, 1)

\* self.defined_options = ...; self.options = ..., once the check has passed
OptionsBase_new(r, defined_options, options) ==
    IF r.e # "" THEN r
    ELSE Alloc(r.h, Node("OptionsBase", <<"defined_options", "options">>,
                         <<defined_options, options>>, TRUE))
           @@ [e |-> "", p |-> <<>>]

\* OptionsBase(defined_options, options)
OptionsBase(h, defined_options, options) ==
    OptionsBase_new(OptionsCheckDefinitions(h, defined_options, options),
                    defined_options, options)

\* A (definition, value) pair as a call's outcome
OkPair(h, definition, value) ==
    [h |-> h, v |-> value, d |-> definition, e |-> "", p |-> <<>>]

value_definition_get_value(g, definition) ==
    IF g.e # "" THEN g ELSE OkPair(g.h, definition, g.v)

value_definition_get_has(has, self, chunks, definition) ==
    IF has.e # "" THEN has
    ELSE IF has.v = True
    THEN value_definition_get_value(
             dict_get_value(has.h, Attr(has.h, self, "options"), chunks, 1), definition)
    ELSE OkPair(has.h, definition, definition)

value_definition_get_definition(g, self, chunks) ==
    IF g.e # "" THEN g
    ELSE IF ~IsInstance(g.h, g.v, "Option") THEN Raise(g.h, "OptionError", chunks)
    ELSE IF Attr(g.h, self, "options") # None
    THEN value_definition_get_has(
             dict_has_name(g.h, Attr(g.h, self, "options"), chunks, 1),
             self, chunks, g.v)
    ELSE OkPair(g.h, g.v, g.v)

\* OptionsBase.value_definition_get(name)
value_definition_get(h, self, chunks) ==
    value_definition_get_definition(
        dict_get_value(h, Attr(h, self, "defined_options"), chunks, 1), self, chunks)

\* value_get without the branch for a store that has no schema
value_get_defined(h, self, chunks) ==
    value_definition_get(h, self, chunks)

\* OptionsBase.value_get(name)
value_get(h, self, chunks) ==
    IF Attr(h, self, "defined_options") = None
    THEN dict_get_value(h, Attr(h, self, "options"), chunks, 1)
    ELSE value_definition_get(h, self, chunks)

\* OptionValue.get_value(name, base_option), for the OptionValue classes
OptionValue_get_value(h, value, base_option) ==
    IF TypeOf(h, value) = "OptionDefaultValue"
    THEN IF IsInstance(h, base_option, "OptionDef")
         THEN Ok(h, Attr(h, base_option, "default_value"))
         ELSE Ok(h, base_option)
    ELSE IF TypeOf(h, value) = "OptionValueCallable"
    THEN IF Attr(h, value, "valuefunc") = FunctionV(4) THEN Ok(h, base_option)
         ELSE Ok(h, Attr(h, value, "valuefunc"))
    ELSE Raise(h, "builtins.NotImplementedError", <<>>)

\* The computed value with an OptionDef it returns replaced by its default
option_root_get_computed_default(c) ==
    IF c.e = "" /\ IsInstance(c.h, c.v, "OptionDef")
    THEN [c EXCEPT !.v = Attr(c.h, c.v, "default_value")]
    ELSE c
option_root_get_computed_again(h, definition, value) ==
    IF IsInstance(h, value, "OptionValue")
    THEN option_root_get_computed_default(
             OptionValue_get_value(h, value, definition) @@ [d |-> definition])
    ELSE OkPair(h, definition, value)

\* if isinstance(value, OptionValue): value = value.get_value(name, definition)
option_root_get_computed(h, definition, value) ==
    IF IsInstance(h, value, "OptionValue")
    THEN OptionValue_get_value(h, value, definition) @@ [d |-> definition]
    ELSE OkPair(h, definition, value)

\* if isinstance(value, OptionDef): value = value.default_value
option_root_get_default(g, definition) ==
    IF g.e # "" THEN g
    ELSE IF IsInstance(g.h, g.v, "OptionDef")
    THEN option_root_get_computed(g.h, definition, Attr(g.h, g.v, "default_value"))
    ELSE option_root_get_computed(g.h, definition, g.v)

\* if isinstance(value, OptionRoot): value = root_options.value_get(value.name)
option_root_get_root(vd, chunks, root_options) ==
    IF vd.e # "" THEN vd
    ELSE IF IsInstance(vd.h, vd.v, "OptionRoot")
    THEN IF root_options = None
         THEN Raise(vd.h, options_exception("TypeError"), chunks)
         ELSE option_root_get_default(
                  value_get(vd.h, root_options, split(Attr(vd.h, vd.v, "name"))), vd.d)
    ELSE option_root_get_default(vd, vd.d)

\* option_root_get up to the type check: the definition and the value after
\* the root, default and computed substitutions
option_root_get_resolve(h, options, chunks, root_options) ==
    option_root_get_root(value_definition_get(h, options, chunks), chunks, root_options)

\* the type check of the resolved value against its definition
option_root_get_check(g, chunks) ==
    IF g.e # "" THEN g
    ELSE IF /\ ~IsData(g.h, g.v)
            /\ IsInstance(g.h, g.d, "OptionDef")
            /\ ~is_allowed_types(g.h, g.v, Attr(g.h, g.d, "allowed_types"),
                                 Attr(g.h, g.d, "required"))
    THEN Raise(g.h, options_exception("TypeError"), chunks)
    ELSE g

option_root_get_return(g, handle_data) ==
    IF g.e # "" THEN g
    ELSE IF handle_data THEN DataClean(g.h, g.v, FALSE)
    ELSE Ok(g.h, g.v)

\* option_root_get(options, name, root_options, handle_data)
option_root_get(h, options, chunks, root_options, handle_data) ==
    option_root_get_return(
        option_root_get_check(
            option_root_get_resolve(h, options, chunks, root_options), chunks),
        handle_data)

-----------------------------------------------------------------------------
(* The options specification: a store is constructed, then read *)

OptionDefLit(required, default_value, allowed_types) ==
    Lit("OptionDef", 0, <<"required", "default_value", "allowed_types">>,
        <<ScalarLit(IF required THEN True ELSE False), default_value, allowed_types>>,
        TRUE)
OptionRootLit(i) == Lit("OptionRoot", 0, <<"name">>, <<ScalarLit(NameStr(i))>>, TRUE)
OptionDefaultValueLit == Lit("OptionDefaultValue", 0, <<>>, <<>>, TRUE)
\* OptionValueCallable(lambda name, base_option: value), or with
\* ScalarLit(FunctionV(4)) OptionValueCallable(lambda name, base_option: base_option)
OptionValueCallableLit(value) ==
    Lit("OptionValueCallable", 0, <<"valuefunc">>, <<value>>, TRUE)

NoneLit == ScalarLit(None)
OptionScalarLits ==
    { NoneLit, ScalarLit(IntV(1)), ScalarLit(StrV(1)), ScalarLit(FloatV(1)),
      ScalarLit(True) }

AllowedTypesLits ==
    { NoneLit, ListLit(<<ScalarLit(TypeV(1))>>),
      ListLit(<<ScalarLit(TypeV(2)), ScalarLit(TypeV(4))>>) }

Leaf0 == OptionDefLit(FALSE, NoneLit, NoneLit)
LeafLits ==
    { OptionDefLit(r, NoneLit, at) : r \in BOOLEAN, at \in AllowedTypesLits }
    \cup { OptionDefLit(r, dv, at) :
             r \in BOOLEAN,
             dv \in { ScalarLit(IntV(1)), ValueDataLit(ScalarLit(IntV(1)), TRUE) },
             at \in { NoneLit, ListLit(<<ScalarLit(TypeV(2))>>) } }

FlatSchemas == { DictLit(<<"a">>, <<leaf>>) : leaf \in LeafLits }
NestedSchemas ==
    { DictLit(<<"a">>, <<DictLit(<<"b">>, <<Leaf0>>)>>),
      DictLit(<<"a", "c">>, <<DictLit(<<"b", "c">>, <<Leaf0, Leaf0>>), Leaf0>>),
      NoneLit }

\* The values options are set to, or computed to be: plain values, Data and
\* trees with Data; FlatOptions adds the Option classes a user may set, and
\* StoredOptions the larger trees.
ComputedLits == OptionScalarLits \cup LitsUpTo(MaxSize - 2)
FlatOptions == { NoneLit, DictLit(<<>>, <<>>) }
               \cup { DictLit(<<"a">>, <<v>>) : v \in ComputedLits }
               \cup { DictLit(<<"a">>, <<OptionValueCallableLit(w)>>) : w \in ComputedLits }
               \cup { DictLit(<<"a">>, <<OptionDefaultValueLit>>),
                      DictLit(<<"a">>, <<OptionRootLit(1)>>) }
StoredOptions == { DictLit(<<"a">>, <<v>>) : v \in LitsUpTo(MaxSize - 1) }
NestedOptions ==
    { DictLit(<<"a">>, <<DictLit(<<>>, <<>>)>>) }
    \cup UNION { { DictLit(<<"a">>, <<v>>),
                   DictLit(<<"c">>, <<v>>),
                   DictLit(<<"a">>, <<DictLit(<<"b">>, <<v>>)>>),
                   DictLit(<<"a">>, <<DictLit(<<"c">>, <<v>>)>>),
                   DictLit(<<"a", "c">>, <<DictLit(<<"b">>, <<v>>), v>>),
                   DictLit(<<"a", "b">>, <<DictLit(<<"b">>, <<v>>), v>>) }
                 : v \in ComputedLits }

\* What a root store holds under the name "a"
RootOptions ==
    { DictLit(<<"a">>, <<w>>) : w \in OptionScalarLits \cup LitsUpTo(MaxSize - 2) }
    \cup { DictLit(<<"c">>, <<ScalarLit(IntV(1))>>) }

Scenario(schema, options, root) ==
    [schema |-> schema, options |-> options, root |-> root, rootschema |-> NoneLit]
RootedScenario(schema, options, root, rootschema) ==
    [schema |-> schema, options |-> options, root |-> root, rootschema |-> rootschema]

\* Stores whose values take the substitutions of option_root_get: defaults
\* that are plain, computed or an OptionRoot; options that are unset, an
\* OptionDef, computed or an OptionRoot; root stores without and with a schema
SubstitutionDefaults ==
    { ScalarLit(IntV(1)), OptionValueCallableLit(ScalarLit(IntV(2))),
      OptionDefaultValueLit, OptionValueCallableLit(ScalarLit(FunctionV(4))),
      OptionRootLit(1) }
SubstitutionOptions ==
    { NoneLit, DictLit(<<>>, <<>>) }
    \cup { DictLit(<<"a">>, <<v>>) :
             v \in { OptionDefaultValueLit, OptionRootLit(1), OptionRootLit(3),
                     OptionValueCallableLit(OptionRootLit(1)),
                     OptionValueCallableLit(OptionDefLit(FALSE, ScalarLit(IntV(1)), NoneLit)),
                     OptionValueCallableLit(ScalarLit(FunctionV(4))),
                     OptionDefLit(FALSE, ScalarLit(IntV(3)), NoneLit) } }
RootSchema == DictLit(<<"a">>, <<OptionDefLit(FALSE, ScalarLit(IntV(5)), NoneLit)>>)
SubstitutionRoots ==
    { [root |-> NoneLit, rootschema |-> NoneLit] }
    \cup { [root |-> DictLit(<<"a">>, <<v>>), rootschema |-> NoneLit] :
             v \in { ScalarLit(IntV(1)),
                     OptionDefLit(FALSE, ScalarLit(IntV(5)), NoneLit),
                     OptionValueCallableLit(ScalarLit(IntV(3))),
                     OptionRootLit(1), OptionDefaultValueLit } }
    \cup { [root |-> o, rootschema |-> RootSchema] :
             o \in { NoneLit, DictLit(<<>>, <<>>), DictLit(<<"a">>, <<ScalarLit(IntV(6))>>) } }
SubstitutionScenarios ==
    { RootedScenario(DictLit(<<"a">>, <<OptionDefLit(FALSE, dv, NoneLit)>>), o,
                     r.root, r.rootschema) :
        dv \in SubstitutionDefaults, o \in SubstitutionOptions, r \in SubstitutionRoots }

\* The stores under test: a schema, the options set, and what the root store
\* holds (None when option_root_get is given no root_options).
OptionScenarios ==
    { Scenario(sc, o, NoneLit) : sc \in FlatSchemas, o \in FlatOptions }
    \cup { Scenario(DictLit(<<"a">>, <<Leaf0>>), o, NoneLit) : o \in StoredOptions }
    \cup { Scenario(sc, o, NoneLit) : sc \in NestedSchemas, o \in NestedOptions }
    \cup { Scenario(sc, DictLit(<<"a">>, <<OptionRootLit(1)>>), r) :
             sc \in FlatSchemas, r \in RootOptions }
    \cup SubstitutionScenarios

\* root_options = OptionsBase(defined_options=..., options=...), or None
InitOptions_root(b) ==
    IF b.vs[3] = None /\ b.vs[4] = None THEN [h |-> b.h, v |-> None]
    ELSE Alloc(b.h, Node("OptionsBase", <<"defined_options", "options">>,
                         <<b.vs[4], b.vs[3]>>, TRUE))

InitOptions_built(b, root) ==
    /\ heap = root.h
    /\ h0 = root.h
    /\ store = [defined_options |-> b.vs[1], options |-> b.vs[2],
                root_options |-> root.v, obj |-> None]

InitOptions_scenario(b) == InitOptions_built(b, InitOptions_root(b))

InitOptions ==
    /\ \E sc \in OptionScenarios :
          InitOptions_scenario(
              BuildAll(<<>>, <<sc.schema, sc.options, sc.root, sc.rootschema>>))
    /\ cur = None
    /\ op = "init"
    /\ arg = None
    /\ ret = None
    /\ exc = ""
    /\ excPath = <<>>
    /\ calls = 0
    /\ docs = NoDocs

NewOptionsBase_returned(r) ==
    /\ Returned("OptionsBase", store.options, r, TRUE)
    /\ store' = [store EXCEPT !.obj = r.v]

\* opt = OptionsBase(defined_options=..., options=...)
NewOptionsBase ==
    /\ op = "init"
    /\ "obj" \in DOMAIN store
    /\ NewOptionsBase_returned(OptionsBase(heap, store.defined_options, store.options))
    /\ UNCHANGED docs

\* option_root_get(opt, name, root_options, handle_data)
CallOptionRootGet ==
    /\ op = "OptionsBase"
    /\ exc = ""
    /\ \E i \in 1..Len(OptionNames), handle_data \in BOOLEAN :
          Returned(IF handle_data THEN "option_root_get" ELSE "option_root_get_raw",
                   NameStr(i),
                   option_root_get(heap, store.obj, OptionNames[i],
                                   store.root_options, handle_data),
                   TRUE)
    /\ UNCHANGED <<store, docs>>

\* opt.value_get(name)
CallValueGet ==
    /\ op = "OptionsBase"
    /\ exc = ""
    /\ \E i \in 1..Len(OptionNames) :
          Returned("value_get", NameStr(i),
                   value_get(heap, store.obj, OptionNames[i]), TRUE)
    /\ UNCHANGED <<store, docs>>

NextOptions == NewOptionsBase \/ CallOptionRootGet \/ CallValueGet

SpecOptions == InitOptions /\ [][NextOptions]_vars

-----------------------------------------------------------------------------
(* The merge specification: a caller merges one tree into another *)

RECURSIVE IsPlainLit(_), IsKeyedLit(_)

\* A literal of ints, lists and dicts only
IsPlainLit(t) ==
    /\ t.kind \in {"int", "list", "dict"}
    /\ \A i \in 1..Len(t.sub) : IsPlainLit(t.sub[i])

\* A literal of ints and dicts only
IsKeyedLit(t) ==
    /\ t.kind \in {"int", "dict"}
    /\ \A i \in 1..Len(t.sub) : IsKeyedLit(t.sub[i])

PlainDicts(n) == { t \in LitsUpTo(n) : t.kind = "dict" /\ IsPlainLit(t) }
KeyedDicts(n) == { t \in LitsUpTo(n) : t.kind = "dict" /\ IsKeyedLit(t) }

PlainLists(n) == { t \in LitsUpTo(n) : t.kind = "list" /\ IsPlainLit(t) }

\* Values of each type a merge tells apart: scalars, a mapping, a sequence
MixedLits == OptionScalarLits \cup { DictLit(<<>>, <<>>), ListLit(<<>>) }

\* The same pairs under the key 'a' of two mappings
Under(pairs) ==
    { <<DictLit(<<"a">>, <<pair[1]>>), DictLit(<<"a">>, <<pair[2]>>)>> : pair \in pairs }

\* Mappings whose merge changes the first key and fails at a later one:
\* on a type conflict, and on a key the nested mapping of base lacks
LateFailures ==
    { <<DictLit(<<"a", "b">>, <<ScalarLit(IntV(1)), ScalarLit(IntV(1))>>),
        DictLit(<<"a", "b">>, <<ScalarLit(IntV(2)), ListLit(<<>>)>>)>>,
      <<DictLit(<<"a", "b">>, <<ScalarLit(IntV(1)), DictLit(<<>>, <<>>)>>),
        DictLit(<<"a", "b">>,
                <<ScalarLit(IntV(2)), DictLit(<<"c">>, <<ScalarLit(IntV(3))>>)>>)>> }

\* The values merged, <<base, incoming>>: nested mappings of ints, the
\* incoming one of one more value than the base; smaller ones with lists;
\* sequences; and values of every pair of types; the last two also under a
\* key of two mappings.
MergeInputs ==
    (KeyedDicts(MaxSize - 1) \X KeyedDicts(MaxSize))
    \cup (PlainDicts(MaxSize - 2) \X PlainDicts(MaxSize - 1))
    \cup (PlainLists(MaxSize - 1) \X PlainLists(MaxSize - 1))
    \cup Under(PlainLists(MaxSize - 1) \X PlainLists(MaxSize - 1))
    \cup (MixedLits \X MixedLits)
    \cup Under(MixedLits \X MixedLits)
    \cup LateFailures

InitMerge_built(b) ==
    /\ heap = b.h
    /\ h0 = b.h
    /\ store = [base |-> b.vs[1], nxt |-> b.vs[2]]

InitMerge ==
    /\ \E pair \in MergeInputs : InitMerge_built(BuildAll(<<>>, pair))
    /\ cur = None
    /\ op = "init"
    /\ arg = None
    /\ ret = None
    /\ exc = ""
    /\ excPath = <<>>
    /\ calls = 0
    /\ docs = NoDocs

\* Merger.merge(base, nxt)
CallMerger ==
    /\ op = "init"
    /\ "base" \in DOMAIN store
    /\ Returned("Merger", store.nxt, merge(heap, "Merger", store.base, store.nxt), TRUE)
    /\ UNCHANGED <<store, docs>>

\* MergerNoCreate.merge(base, nxt)
CallMergerNoCreate ==
    /\ op = "init"
    /\ "base" \in DOMAIN store
    /\ Returned("MergerNoCreate", store.nxt,
                merge(heap, "MergerNoCreate", store.base, store.nxt), TRUE)
    /\ UNCHANGED <<store, docs>>

\* What a second merge brings in
SecondIncoming ==
    { DictLit(<<"a">>, <<DictLit(<<"b">>, <<ScalarLit(IntV(2))>>)>>),
      DictLit(<<"a">>, <<DictLit(<<"c">>, <<ScalarLit(IntV(3))>>)>>),
      DictLit(<<"b">>, <<ScalarLit(IntV(2))>>),
      DictLit(<<"a">>, <<ListLit(<<ScalarLit(IntV(2))>>)>>) }

CallMergerAgain_built(b) ==
    Returned("MergerAgain", b.v, merge(b.h, "Merger", store.base, b.v), TRUE)

\* Merger.merge(base, nxt) followed by Merger.merge(base, third)
CallMergerAgain ==
    /\ op = "Merger"
    /\ exc = ""
    /\ IsMapping(heap, store.base)
    /\ \E third \in SecondIncoming : CallMergerAgain_built(Build(heap, third))
    /\ UNCHANGED <<store, docs>>

NextMerge == CallMerger \/ CallMergerNoCreate \/ CallMergerAgain

SpecMerge == InitMerge /\ [][NextMerge]_vars

-----------------------------------------------------------------------------
(* Filtered JSON patches: object.py, jsonpatch.py, private/jsonpatch.py *)

\* An Object: a dict with the attributes name, source and instance
ObjectNode(keys, vals, attrs) == Node("Object", keys, vals, TRUE) @@ [attrs |-> attrs]

\* The callables the filters use: the i-th is written FunctionV(i).
\* lambda o: True, lambda o: False, lambda o: 'a' in o
call(h, c, object) ==
    IF c.n = 1 THEN TRUE
    ELSE IF c.n = 2 THEN FALSE
    ELSE HasKey(h[object.n], "a")

\* v in list
InList(h, list, v) == \E i \in 1..Len(h[list.n].vals) : h[list.n].vals[i] = v

\* for c in self.callables: if c(object): return True
RECURSIVE is_include_callables(_, _, _, _)
is_include_callables(h, callables, object, i) ==
    IF i > Len(h[callables.n].vals) THEN FALSE
    ELSE call(h, h[callables.n].vals[i], object)
         \/ is_include_callables(h, callables, object, i + 1)

\* is_include that rejects every document that is no Object
is_include_objects(h, self, object) ==
    IF ~IsInstance(h, object, "Object") THEN FALSE
    ELSE IF \/ /\ Attr(h, self, "names") # None
               /\ ~InList(h, Attr(h, self, "names"), h[object.n].attrs.name)
            \/ /\ Attr(h, self, "sources") # None
               /\ ~InList(h, Attr(h, self, "sources"), h[object.n].attrs.source)
            \/ /\ Attr(h, self, "instances") # None
               /\ ~InList(h, Attr(h, self, "instances"), h[object.n].attrs.instance)
    THEN FALSE
    ELSE IF Attr(h, self, "callables") # None
    THEN is_include_callables(h, Attr(h, self, "callables"), object, 1)
    ELSE TRUE

\* ObjectFilter.is_include(object)
is_include(h, self, object) ==
    IF /\ ~IsInstance(h, object, "Object")
       /\ \/ Attr(h, self, "names") # None
          \/ Attr(h, self, "sources") # None
          \/ Attr(h, self, "instances") # None
    THEN FALSE
    ELSE IF /\ IsInstance(h, object, "Object")
            /\ \/ /\ Attr(h, self, "names") # None
                  /\ ~InList(h, Attr(h, self, "names"), h[object.n].attrs.name)
               \/ /\ Attr(h, self, "sources") # None
                  /\ ~InList(h, Attr(h, self, "sources"), h[object.n].attrs.source)
               \/ /\ Attr(h, self, "instances") # None
                  /\ ~InList(h, Attr(h, self, "instances"), h[object.n].attrs.instance)
    THEN FALSE
    ELSE IF Attr(h, self, "callables") # None
    THEN is_include_callables(h, Attr(h, self, "callables"), object, 1)
    ELSE TRUE

\* ObjectFilter.__init__: a str becomes [str], a lone callable [callable]
ObjectFilter_str(h, v) ==
    IF IsInstance(h, v, "str") THEN Alloc(h, Node("list", <<>>, <<v>>, TRUE))
    ELSE [h |-> h, v |-> v]
ObjectFilter_callable(h, v) ==
    IF v # None /\ ~(IsSequence(h, v) \/ IsInstance(h, v, "str"))
    THEN Alloc(h, Node("list", <<>>, <<v>>, TRUE))
    ELSE [h |-> h, v |-> v]
ObjectFilter_callables(c, names, sources, instances) ==
    Alloc(c.h, Node("ObjectFilter", <<"names", "sources", "instances", "callables">>,
                    <<names, sources, instances, c.v>>, TRUE))
ObjectFilter_instances(i, names, sources, callables) ==
    ObjectFilter_callables(ObjectFilter_callable(i.h, callables), names, sources, i.v)
ObjectFilter_sources(s, names, instances, callables) ==
    ObjectFilter_instances(ObjectFilter_str(s.h, instances), names, s.v, callables)
ObjectFilter_names(n, sources, instances, callables) ==
    ObjectFilter_sources(ObjectFilter_str(n.h, sources), n.v, instances, callables)

\* ObjectFilter(names, sources, instances, callables)
ObjectFilter(h, names, sources, instances, callables) ==
    ObjectFilter_names(ObjectFilter_str(h, names), sources, instances, callables)

\* d[name] if name in d else None
DictGetOrNone(h, d, name) ==
    IF HasKey(h[d.n], name) THEN GetItem(h[d.n], name) ELSE None

ObjectFilterFields == {"names", "sources", "instances", "callables"}

\* ObjectFilterFromDict(d)
ObjectFilterFromDict(h, d) ==
    IF ~\E name \in ObjectFilterFields : HasKey(h[d.n], name)
    THEN Raise(h, "InvalidParamError", <<>>)
    ELSE ObjectFilter(h, DictGetOrNone(h, d, "names"), DictGetOrNone(h, d, "sources"),
                      DictGetOrNone(h, d, "instances"), DictGetOrNone(h, d, "callables"))
           @@ [e |-> "", p |-> <<>>]

RECURSIVE ObjectFilterCheck_filters(_, _, _, _)

\* the filter made from a dict: does it accept the object?
ObjectFilterCheck_dict(f, object, filters, i) ==
    IF f.e # "" THEN f
    ELSE IF is_include(f.h, f.v, object) THEN Ok(f.h, True)
    ELSE ObjectFilterCheck_filters(f.h, object, filters, i + 1)

\* for filter in filters, from the i-th on
ObjectFilterCheck_filters(h, object, filters, i) ==
    IF i > Len(h[filters.n].vals) THEN Ok(h, False)
    ELSE IF IsInstance(h, h[filters.n].vals[i], "ObjectFilterBase")
    THEN IF is_include(h, h[filters.n].vals[i], object) THEN Ok(h, True)
         ELSE ObjectFilterCheck_filters(h, object, filters, i + 1)
    ELSE IF IsMapping(h, h[filters.n].vals[i])
    THEN ObjectFilterCheck_dict(ObjectFilterFromDict(h, h[filters.n].vals[i]),
                                object, filters, i)
    ELSE IF h[filters.n].vals[i].k = "function"
    THEN IF call(h, h[filters.n].vals[i], object) THEN Ok(h, True)
         ELSE ObjectFilterCheck_filters(h, object, filters, i + 1)
    ELSE Raise(h, "InvalidParamError", <<>>)

\* ObjectFilterCheck that accepts when the first filter does
ObjectFilterCheck_first(h, object, filters) ==
    IF filters = None THEN Ok(h, True)
    ELSE IF Len(h[filters.n].vals) = 0 THEN Ok(h, False)
    ELSE IF IsInstance(h, h[filters.n].vals[1], "ObjectFilterBase")
    THEN Ok(h, IF is_include(h, h[filters.n].vals[1], object) THEN True ELSE False)
    ELSE ObjectFilterCheck_filters(h, object, filters, 1)

\* ObjectFilterCheck(object, filters)
ObjectFilterCheck(h, object, filters) ==
    IF filters = None THEN Ok(h, True)
    ELSE ObjectFilterCheck_filters(h, object, filters, 1)

\* helper.py: HelperStrNewInstance(base, value), value's text in base's class
HelperStrNewInstance(h, base, value) ==
    IF IsInstance(h, base, "QuotedStr") THEN Ok(h, [k |-> "QuotedStr", n |-> value.n])
    ELSE IF IsInstance(h, base, "SingleQuotedStr")
    THEN Ok(h, [k |-> "SingleQuotedStr", n |-> value.n])
    ELSE IF IsInstance(h, base, "DoubleQuotedStr")
    THEN Ok(h, [k |-> "DoubleQuotedStr", n |-> value.n])
    ELSE IF IsInstance(h, base, "FoldedStr") THEN Ok(h, [k |-> "FoldedStr", n |-> value.n])
    ELSE IF IsInstance(h, base, "LiteralStr") THEN Ok(h, [k |-> "LiteralStr", n |-> value.n])
    ELSE Raise(h, "InvalidParamError", <<>>)

\* A fallback that always takes the incoming string
jsonpatch_merge_fallback_incoming(h, path, base, nxt) ==
    IF IsInstance(h, base, "str") /\ IsInstance(h, nxt, "str") THEN Ok(h, nxt)
    ELSE Ok(h, STRATEGY_END)

\* private/jsonpatch.py: the first fallback strategy of jsonpatch_merge
jsonpatch_merge_fallback(h, path, base, nxt) ==
    IF IsInstance(h, base, "str") /\ IsInstance(h, nxt, "str")
    THEN IF IsInstance(h, base, "HelperStr") /\ ~IsInstance(h, nxt, "HelperStr")
         THEN HelperStrNewInstance(h, base, nxt)
         ELSE Ok(h, nxt)
    ELSE Ok(h, STRATEGY_END)

\* [jsonpatch_merge_fallback, jsonpatchext.merge_fallback]: the second, a
\* function of the jsonpatchext package, decides when the first has no result
jsonpatch_merge_fallbacks(r, path) ==
    IF r.e # "" \/ r.v # STRATEGY_END THEN r
    ELSE Raise(r.h, "jsonpatchext.merge_fallback", path)

RECURSIVE JSONPatchMerger_value_strategy(_, _, _, _), jsonpatch_strategy_merge(_, _, _, _, _),
          jsonpatch_strategy_merge_set(_, _, _, _, _)

\* base[k] = config.value_strategy(path + [k], base[k], v), then the next item
jsonpatch_strategy_merge_set(r, path, base, nxt, i) ==
    IF r.e # "" THEN r
    ELSE jsonpatch_strategy_merge(DictSet(r.h, base.n, r.h[nxt.n].keys[i], r.v),
                                  path, base, nxt, i + 1)

\* (dict, "merge") of jsonpatch_merge
jsonpatch_strategy_merge(h, path, base, nxt, i) ==
    IF i > Len(h[nxt.n].keys) THEN Ok(h, base)
    ELSE IF ~HasKey(h[base.n], h[nxt.n].keys[i])
    THEN jsonpatch_strategy_merge(DictSet(h, base.n, h[nxt.n].keys[i], h[nxt.n].vals[i]),
                                  path, base, nxt, i + 1)
    ELSE jsonpatch_strategy_merge_set(
             JSONPatchMerger_value_strategy(h, path \o <<h[nxt.n].keys[i]>>,
                 GetItem(h[base.n], h[nxt.n].keys[i]), h[nxt.n].vals[i]),
             path, base, nxt, i)

\* deepmerge.Merger.value_strategy as jsonpatch_merge configures it; the
\* type-conflict strategy is a function of the jsonpatchext package
Merger_value_strategy(h, path, base, nxt) ==
    IF ~(IsInstance(h, base, TypeOf(h, nxt)) \/ IsInstance(h, nxt, TypeOf(h, base)))
    THEN Raise(h, "jsonpatchext.merge_type_conflict", path)
    ELSE IF IsInstance(h, nxt, "list")
         THEN Ok(strategy_append(h, base, nxt).h, strategy_append(h, base, nxt).v)
    ELSE IF IsInstance(h, nxt, "dict") THEN jsonpatch_strategy_merge(h, path, base, nxt, 1)
    ELSE jsonpatch_merge_fallbacks(jsonpatch_merge_fallback(h, path, base, nxt), path)

\* newbase = base.get_value(), for an enabled Data base
JSONPatchMerger_enabled(g, path, nxt) ==
    IF g.e # "" THEN g ELSE Merger_value_strategy(g.h, path, g.v, nxt)

\* newbase for a disabled Data base whose value is not a dict: [] for a list
JSONPatchMerger_disabled_list(g, path, nxt) ==
    IF g.e # "" THEN g
    ELSE IF TypeOf(g.h, g.v) = "list"
    THEN Merger_value_strategy(Alloc(g.h, Node("list", <<>>, <<>>, TRUE)).h, path,
                               Alloc(g.h, Node("list", <<>>, <<>>, TRUE)).v, nxt)
    ELSE Merger_value_strategy(g.h, path, None, nxt)

\* newbase for a disabled Data base: {} when its value is a dict
JSONPatchMerger_disabled(g, path, base, nxt) ==
    IF g.e # "" THEN g
    ELSE IF TypeOf(g.h, g.v) = "dict"
    THEN Merger_value_strategy(Alloc(g.h, Node("dict", <<>>, <<>>, TRUE)).h, path,
                               Alloc(g.h, Node("dict", <<>>, <<>>, TRUE)).v, nxt)
    ELSE JSONPatchMerger_disabled_list(get_value(g.h, base), path, nxt)

\* private/jsonpatch.py: JSONPatchMerger.value_strategy
JSONPatchMerger_value_strategy(h, path, base, nxt) ==
    IF IsData(h, base)
    THEN IF is_enabled(h, base)
         THEN JSONPatchMerger_enabled(get_value(h, base), path, nxt)
         ELSE JSONPatchMerger_disabled(get_value(h, base), path, base, nxt)
    ELSE IF IsInstance(h, base, "HelperStr") /\ IsInstance(h, nxt, "HelperStr")
    THEN Merger_value_strategy(h, path, [k |-> "str", n |-> base.n], nxt)
    ELSE Merger_value_strategy(h, path, base, nxt)

\* jsonpatch_merge.merge(base, nxt)
jsonpatch_merge(h, base, nxt) == JSONPatchMerger_value_strategy(h, <<>>, base, nxt)

\* subobj[part] = jsonpatch_merge.merge(subobj[part], value)
KGMergeOperation_apply_merge_set(r, subobj, part) ==
    IF r.e # "" THEN r ELSE Ok(DictSet(r.h, subobj.n, part[1], r.v), None)

\* private/jsonpatch.py: KGMergeOperation.apply_merge(subobj, part, value);
\* part is the key as <<key>>, and <<>> for None (the document itself)
KGMergeOperation_apply_merge(h, subobj, part, value) ==
    IF part # <<>>
    THEN KGMergeOperation_apply_merge_set(
             jsonpatch_merge(h, GetItem(h[subobj.n], part[1]), value), subobj, part)
    ELSE [jsonpatch_merge(h, subobj, value) EXCEPT !.v = None]

\* The patch operations in use; the i-th is written PatchV(i):
\* {'op': 'add', 'path': '/p', 'value': 7}, {'op': 'remove', 'path': '/a'},
\* {'op': 'add', 'path': '/a', 'value': 8}, {'op': 'add', 'path': '/q'}
PatchOperations ==
    << [op |-> "add", key |-> "p", value |-> IntV(7), members |-> {"op", "path", "value"}],
       [op |-> "remove", key |-> "a", value |-> None, members |-> {"op", "path"}],
       [op |-> "add", key |-> "a", value |-> IntV(8), members |-> {"op", "path", "value"}],
       [op |-> "add", key |-> "q", value |-> None, members |-> {"op", "path"}] >>
PatchV(i) == [k |-> "patch", n |-> i]

\* One operation of a patch on the item: add sets the key and is invalid
\* without a 'value' member, remove deletes the key and conflicts when it is
\* missing.
operation_apply(h, operation, item) ==
    IF operation.op = "add"
    THEN IF "value" \notin operation.members
         THEN Raise(h, "jsonpatch.InvalidJsonPatch", <<operation.key>>)
         ELSE Ok(DictSet(h, item.n, operation.key, operation.value), item)
    ELSE IF HasKey(h[item.n], operation.key)
    THEN Ok(DelEntry(h, item.n, KeyIndex(h[item.n], operation.key)), item)
    ELSE Raise(h, "jsonpatch.JsonPatchConflict", <<operation.key>>)

RECURSIVE KGJsonPatchExt_apply(_, _, _, _), KGJsonPatchExt_apply_next(_, _, _, _)

KGJsonPatchExt_apply_next(r, patch, item, k) ==
    IF r.e # "" THEN r ELSE KGJsonPatchExt_apply(r.h, patch, item, k + 1)

\* KGJsonPatchExt(patch).apply(item, in_place=True), from the k-th operation on
KGJsonPatchExt_apply(h, patch, item, k) ==
    IF k > Len(h[patch.n].vals) THEN Ok(h, item)
    ELSE KGJsonPatchExt_apply_next(
             operation_apply(h, PatchOperations[h[patch.n].vals[k].n], item),
             patch, item, k)

RECURSIVE FilterJSONPatches_Apply_items(_, _, _, _, _),
          FilterJSONPatches_Apply_check(_, _, _, _, _),
          FilterJSONPatches_Apply_applied(_, _, _, _, _)

\* after KGJsonPatchExt(jp.patches).apply(item, in_place=True)
FilterJSONPatches_Apply_applied(a, items, jsonpatches, i, j) ==
    IF a.e # "" THEN a
    ELSE FilterJSONPatches_Apply_items(a.h, items, jsonpatches, i, j + 1)

\* if ObjectFilterCheck(item, jp.filters): ...
FilterJSONPatches_Apply_check(c, items, jsonpatches, i, j) ==
    IF c.e # "" THEN c
    ELSE IF c.v = True
    THEN FilterJSONPatches_Apply_applied(
             KGJsonPatchExt_apply(c.h, Attr(c.h, c.h[jsonpatches.n].vals[j], "patches"),
                                  c.h[items.n].vals[i], 1),
             items, jsonpatches, i, j)
    ELSE FilterJSONPatches_Apply_items(c.h, items, jsonpatches, i, j + 1)

\* The loops with the filters checked against the documents as they were
\* when FilterJSONPatches_Apply was called
FilterJSONPatches_Apply_items_stale(h, items, jsonpatches, i, j) ==
    IF i > Len(h[items.n].vals) THEN Ok(h, items)
    ELSE IF j > Len(h[jsonpatches.n].vals)
    THEN FilterJSONPatches_Apply_items(h, items, jsonpatches, i + 1, 1)
    ELSE FilterJSONPatches_Apply_check(
             [ObjectFilterCheck(heap, h[items.n].vals[i],
                                Attr(h, h[jsonpatches.n].vals[j], "filters"))
                EXCEPT !.h = h],
             items, jsonpatches, i, j)

\* for item in items: for jp in jsonpatches, at the i-th item and j-th jp
FilterJSONPatches_Apply_items(h, items, jsonpatches, i, j) ==
    IF i > Len(h[items.n].vals) THEN Ok(h, items)
    ELSE IF j > Len(h[jsonpatches.n].vals)
    THEN FilterJSONPatches_Apply_items(h, items, jsonpatches, i + 1, 1)
    ELSE FilterJSONPatches_Apply_check(
             ObjectFilterCheck(h, h[items.n].vals[i],
                               Attr(h, h[jsonpatches.n].vals[j], "filters")),
             items, jsonpatches, i, j)

\* except InvalidJsonPatch as e: raise InvalidJsonPatchError(str(e)) from e
FilterJSONPatches_Apply_except(r) ==
    IF r.e = "jsonpatch.InvalidJsonPatch" THEN Raise(r.h, "InvalidJsonPatchError", r.p)
    ELSE r

\* FilterJSONPatches_Apply(items, jsonpatches)
FilterJSONPatches_Apply(h, items, jsonpatches) ==
    IF jsonpatches = None THEN Ok(h, items)
    ELSE FilterJSONPatches_Apply_except(
             FilterJSONPatches_Apply_items(h, items, jsonpatches, 1, 1))

-----------------------------------------------------------------------------
(* The patch specification: patch specs are applied to documents *)

ObjectLit(keys, sub, name, source, instance) ==
    Lit("Object", 0, keys, sub, TRUE)
      @@ [attrs |-> [name |-> name, source |-> source, instance |-> instance]]
ObjectFilterLit(names, sources, instances, callables) ==
    Lit("ObjectFilter", 0, <<"names", "sources", "instances", "callables">>,
        <<names, sources, instances, callables>>, TRUE)
FilterJSONPatchLit(patches, filters) ==
    Lit("FilterJSONPatch", 0, <<"patches", "filters">>, <<patches, filters>>, TRUE)

NameX == StrV(11)
NameY == StrV(12)
SourceS == StrV(21)
SourceT == StrV(22)
InstanceI == StrV(31)

DataLits == { DictLit(<<>>, <<>>), DictLit(<<"a">>, <<ScalarLit(IntV(1))>>) }

\* The documents: Objects named x or y, from source s or t, and raw dicts
DocLits ==
    { Lit("Object", 0, d.keys, d.sub, TRUE)
        @@ [attrs |-> [name |-> name, source |-> SourceS, instance |-> InstanceI]]
      : d \in DataLits, name \in {NameX, NameY} }
    \cup { ObjectLit(<<>>, <<>>, NameX, SourceT, InstanceI) }
    \cup DataLits

RECURSIVE SeqsUpTo(_, _)
\* The non-empty sequences of at most n elements of S
SeqsUpTo(S, n) ==
    IF n = 0 THEN {}
    ELSE { <<x>> : x \in S }
         \cup { Append(q, x) : q \in SeqsUpTo(S, n - 1), x \in S }

\* The lists of at most MaxSize - 2 documents
ItemsLits == { ListLit(q) : q \in SeqsUpTo(DocLits, MaxSize - 2) }

StrList(v) == ListLit(<<ScalarLit(v)>>)
CallablesLits ==
    { NoneLit, ListLit(<<>>),
      ListLit(<<ScalarLit(FunctionV(1))>>),
      ListLit(<<ScalarLit(FunctionV(2)), ScalarLit(FunctionV(3))>>) }

\* The filters: ObjectFilter instances, dicts, callables and an int
FilterLits ==
    { ObjectFilterLit(names, sources, NoneLit, callables) :
        names \in { NoneLit, StrList(NameX),
                    ListLit(<<ScalarLit(NameX), ScalarLit(NameY)>>) },
        sources \in { NoneLit, StrList(SourceS) },
        callables \in CallablesLits }
    \cup { ObjectFilterLit(NoneLit, NoneLit, StrList(InstanceI), NoneLit),
           DictLit(<<"names">>, <<StrList(NameX)>>),
           DictLit(<<"names", "sources">>, <<ScalarLit(NameY), ScalarLit(SourceS)>>),
           DictLit(<<>>, <<>>),
           ScalarLit(FunctionV(1)), ScalarLit(FunctionV(3)), ScalarLit(IntV(1)) }

FilterPairs ==
    { ObjectFilterLit(StrList(NameX), NoneLit, NoneLit, NoneLit),
      ObjectFilterLit(NoneLit, StrList(SourceT), NoneLit, NoneLit),
      DictLit(<<>>, <<>>),
      ScalarLit(FunctionV(3)) }

\* The filter sets: None, none, one filter, or two
FiltersLits ==
    { NoneLit, ListLit(<<>>) }
    \cup { ListLit(<<f>>) : f \in FilterLits }
    \cup { ListLit(<<f, g>>) : f \in FilterPairs, g \in FilterPairs }

PatchLits ==
    { ListLit(<<ScalarLit(PatchV(1))>>), ListLit(<<ScalarLit(PatchV(2))>>),
      ListLit(<<ScalarLit(PatchV(3)), ScalarLit(PatchV(1))>>),
      ListLit(<<ScalarLit(PatchV(1)), ScalarLit(PatchV(2)), ScalarLit(PatchV(3))>>),
      ListLit(<<ScalarLit(PatchV(1)), ScalarLit(PatchV(4)), ScalarLit(PatchV(3))>>) }

\* The patch specs given: None, one spec, or two of which the second
\* filters on what the first may have added
JsonpatchesLits ==
    { NoneLit }
    \cup { ListLit(<<FilterJSONPatchLit(p, f)>>) : p \in PatchLits, f \in FiltersLits }
    \cup { ListLit(<<FilterJSONPatchLit(ListLit(<<ScalarLit(PatchV(3))>>), f),
                     FilterJSONPatchLit(ListLit(<<ScalarLit(PatchV(1))>>), g)>>)
           : f \in { NoneLit, ListLit(<<ObjectFilterLit(StrList(NameX), NoneLit, NoneLit, NoneLit)>>) },
             g \in { NoneLit, ListLit(<<ScalarLit(FunctionV(3))>>) } }

InitPatch_built(b) ==
    /\ heap = b.h
    /\ h0 = b.h
    /\ docs = [items |-> b.vs[1], jsonpatches |-> b.vs[2]]

InitPatch ==
    /\ \E items \in ItemsLits, jsonpatches \in JsonpatchesLits :
          InitPatch_built(BuildAll(<<>>, <<items, jsonpatches>>))
    /\ cur = None
    /\ op = "init"
    /\ arg = None
    /\ ret = None
    /\ exc = ""
    /\ excPath = <<>>
    /\ calls = 0
    /\ store = NoStore

\* FilterJSONPatches_Apply(items, jsonpatches)
CallFilterJSONPatches_Apply ==
    /\ op = "init"
    /\ "items" \in DOMAIN docs
    /\ Returned("FilterJSONPatches_Apply", docs.items,
                FilterJSONPatches_Apply(heap, docs.items, docs.jsonpatches), TRUE)
    /\ UNCHANGED <<store, docs>>

\* ObjectFilterCheck(item, filters), for an item and the filters of a spec
CallObjectFilterCheck ==
    /\ op = "init"
    /\ "items" \in DOMAIN docs
    /\ docs.jsonpatches # None
    /\ \E i \in 1..Len(heap[docs.items.n].vals),
          j \in 1..Len(heap[docs.jsonpatches.n].vals) :
          Returned("ObjectFilterCheck", heap[docs.items.n].vals[i],
                   ObjectFilterCheck(heap, heap[docs.items.n].vals[i],
                       Attr(heap, heap[docs.jsonpatches.n].vals[j], "filters")),
                   TRUE)
    /\ UNCHANGED <<store, docs>>

NextPatch == CallFilterJSONPatches_Apply \/ CallObjectFilterCheck

SpecPatch == InitPatch /\ [][NextPatch]_vars

-----------------------------------------------------------------------------
(* Reading trees, for the properties *)

IsContainer(h, v) == IsMapping(h, v) \/ IsSequence(h, v)

RECURSIVE HasData(_, _), Reach(_, _), DirectContainers(_, _), ReachesDisabled(_, _),
          OnlyEnabled(_, _)

\* A Data instance sits at some position of the tree v (or is v itself).
HasData(h, v) ==
    \/ IsData(h, v)
    \/ /\ IsContainer(h, v)
       /\ \E i \in 1..Len(h[v.n].vals) : HasData(h, h[v.n].vals[i])

\* The identities of the objects reachable from v.
Reach(h, v) ==
    IF ~IsRef(v) THEN {}
    ELSE {v.n} \cup UNION { Reach(h, h[v.n].vals[i]) : i \in 1..Len(h[v.n].vals) }

\* The mappings and sequences of the tree v: those reached from v through
\* mapping keys and sequence indices alone.
DirectContainers(h, v) ==
    IF ~IsContainer(h, v) THEN {}
    ELSE {v.n} \cup UNION { DirectContainers(h, h[v.n].vals[i])
                            : i \in 1..Len(h[v.n].vals) }

\* v is a disabled Data, or an enabled Data whose payload, unwrapped
\* transitively, is a disabled Data.
ReachesDisabled(h, v) ==
    /\ IsData(h, v)
    /\ \/ ~is_enabled(h, v)
       \/ TypeOf(h, v) # "DisabledData" /\ ReachesDisabled(h, h[v.n].vals[1])

\* Every Data of v, at any position and any nesting depth, is enabled.
OnlyEnabled(h, v) ==
    \/ ~IsRef(v)
    \/ /\ IsData(h, v) => is_enabled(h, v)
       /\ \A i \in 1..Len(h[v.n].vals) : OnlyEnabled(h, h[v.n].vals[i])

IsDisabledData(h, v) == IsData(h, v) /\ ~is_enabled(h, v)

\* The indices of the entries of container id that are no disabled Data.
KeptEntries(h, id) ==
    LET Kept(i) == ~IsDisabledData(h, h[id].vals[i])
    IN SelectSeq([i \in 1..Len(h[id].vals) |-> i], Kept)

\* What one get_value() leaves at the place of an entry.
EntryValue(h, v) == IF IsData(h, v) THEN h[v.n].vals[1] ELSE v

\* The entries of container id once its disabled entries are deleted and
\* its enabled Data entries replaced: <<keys, vals>>.
CleanedEntries(h, id) ==
    LET kept == KeptEntries(h, id)
    IN [keys |-> IF Len(h[id].keys) = 0 THEN <<>>
                 ELSE [j \in 1..Len(kept) |-> h[id].keys[kept[j]]],
        vals |-> [j \in 1..Len(kept) |-> EntryValue(h, h[id].vals[kept[j]])]]

CleanOps == {"DataClean", "DataCleanCopy"}

-----------------------------------------------------------------------------
(* Properties of DataClean and DataGetValue (data.py) *)

\* C1: after DataClean(t) returns, for t a tree of mappings and sequences
\* holding Data at any position (a Data whose payload is a Data included),
\* the resulting tree holds no Data instance at any position.
C1_NoDataAfterClean ==
    (op \in CleanOps /\ exc = "" /\ IsContainer(h0, arg)) => ~HasData(heap, ret)

\* C6: DataClean(t, in_place=False) mutates no object that existed before
\* the call (t, and every Data in it, ConfigDataMerge included, are as they
\* were); what it returns is made of new objects only and is the tree that
\* cleaning t in place would give.
C6_CopyLeavesOriginal ==
    op = "DataCleanCopy" =>
        /\ SubSeq(heap, 1, Len(h0)) = h0
        /\ \A id \in Reach(heap, ret) : id > Len(h0)
        /\ exc = DataClean(h0, arg, TRUE).e
        /\ exc = "" => TreeOf(heap, ret)
                         = TreeOf(DataClean(h0, arg, TRUE).h, DataClean(h0, arg, TRUE).v)

\* C6 witness: a copying clean of a mapping or sequence that holds an enabled
\* ConfigDataMerge returned a tree that differs from the original.
C6_Witness ==
    /\ op = "DataCleanCopy"
    /\ exc = ""
    /\ IsContainer(h0, arg)
    /\ \E i \in 1..Len(h0[arg.n].vals) :
          /\ TypeOf(h0, h0[arg.n].vals[i]) = "ConfigDataMerge"
          /\ is_enabled(h0, h0[arg.n].vals[i])
    /\ TreeOf(heap, ret) # TreeOf(h0, arg)

\* C7: when DataClean(t) returns, every mapping and sequence of t has lost
\* exactly its disabled Data entries: a mapping's key is deleted, not set to
\* None; a sequence's element is removed, the later elements shift down and
\* the remaining ones keep their order, however many are disabled.
C7_DisabledRemoved ==
    (op = "DataClean" /\ exc = "") =>
        \A id \in DirectContainers(h0, arg) :
            /\ heap[id].keys = CleanedEntries(h0, id).keys
            /\ heap[id].vals = CleanedEntries(h0, id).vals

\* C7 witness: DataClean returned on a sequence of at least three elements,
\* two of them disabled Data and one that is kept after a removed one.
C7_Witness ==
    /\ op = "DataClean"
    /\ exc = ""
    /\ IsSequence(h0, arg)
    /\ \E i, j, k \in 1..Len(h0[arg.n].vals) :
          /\ i < j /\ i < k /\ j # k
          /\ IsDisabledData(h0, h0[arg.n].vals[i])
          /\ IsDisabledData(h0, h0[arg.n].vals[j])
          /\ ~IsDisabledData(h0, h0[arg.n].vals[k])
    /\ Len(heap[arg.n].vals) < Len(h0[arg.n].vals)

\* C8: for a tree t of mappings and sequences whose Data are all enabled,
\* one DataClean replaces every Data by its unwrapped value and a second
\* DataClean of the result changes nothing.
C8_Idempotent ==
    (op = "DataClean" /\ calls = 1 /\ exc = "" /\ IsContainer(h0, arg)
        /\ OnlyEnabled(h0, arg)) =>
        /\ ~HasData(heap, ret)
        /\ DataClean(heap, ret, TRUE).e = ""
        /\ TreeOf(DataClean(heap, ret, TRUE).h, DataClean(heap, ret, TRUE).v)
             = TreeOf(heap, ret)

\* C9: DataGetValue(value, raise_if_disabled=True) raises
\* InvalidOperationError whenever value is a disabled Data or an enabled Data
\* whose payload, unwrapped transitively, is a disabled Data.
C9_RaisesWhenDisabled ==
    (op = "DataGetValueRaise" /\ ReachesDisabled(h0, arg)) =>
        exc = "InvalidOperationError"

-----------------------------------------------------------------------------
(* Properties of option stores (options.py) *)

RECURSIVE AllPathsResolve(_, _, _)

\* Every key path of options leads, level by level, to an Option leaf of
\* defined_options: each key is a key of the schema, and where the schema
\* has a nested mapping the option value is a mapping whose paths resolve.
AllPathsResolve(h, defined_options, options) ==
    \A i \in 1..Len(h[options.n].keys) :
        /\ HasKey(h[defined_options.n], h[options.n].keys[i])
        /\ \/ IsInstance(h, GetItem(h[defined_options.n], h[options.n].keys[i]), "Option")
           \/ /\ IsMapping(h, GetItem(h[defined_options.n], h[options.n].keys[i]))
              /\ IsMapping(h, h[options.n].vals[i])
              /\ AllPathsResolve(h, GetItem(h[defined_options.n], h[options.n].keys[i]),
                                 h[options.n].vals[i])

\* C2: constructing OptionsBase with a schema and options succeeds only if
\* every key path of options resolves to an Option leaf of the schema at
\* every level; otherwise (a key the schema lacks, or a non-mapping value
\* where the schema has a nested mapping) it raises OptionError.
C2_ConstructionChecksPaths ==
    (op = "OptionsBase" /\ store.defined_options # None /\ store.options # None) =>
        IF AllPathsResolve(h0, store.defined_options, store.options)
        THEN exc = ""
        ELSE exc = "OptionError"

GetOps == {"option_root_get", "option_root_get_raw"}

\* The definition and value option_root_get has in hand at its type check.
Resolved == option_root_get_resolve(h0, store.obj, split(arg), store.root_options)

\* The type check applies: the substitutions gave a value that is no Data,
\* for a definition that is an OptionDef.
TypeCheckApplies ==
    /\ op \in GetOps
    /\ Resolved.e = ""
    /\ ~IsData(h0, Resolved.v)
    /\ IsInstance(h0, Resolved.d, "OptionDef")

\* (a) None for a required option, or (b) a value, other than the None of a
\* non-required option, that is an instance of none of the allowed_types.
TypeCheckFails ==
    \/ Resolved.v = None /\ Attr(h0, Resolved.d, "required") = True
    \/ /\ Resolved.v # None
       /\ Attr(h0, Resolved.d, "allowed_types") # None
       /\ \A i \in 1..Len(h0[Attr(h0, Resolved.d, "allowed_types").n].vals) :
             ~IsInstance(h0, Resolved.v,
                 TypeNames[h0[Attr(h0, Resolved.d, "allowed_types").n].vals[i].n])

\* C3: option_root_get raises the library's TypeError
\* (kubragen.exception.TypeError) exactly when the value after the root,
\* default and computed substitutions is no Data and (a) is None for a
\* required option or (b) is an instance of none of the allowed_types; None
\* for a non-required option is accepted, and a Data skips the check.
C3_RaisesLibraryTypeError ==
    /\ TypeCheckApplies =>
          IF TypeCheckFails THEN exc = "TypeError"
          ELSE exc \notin {"TypeError", "builtins.TypeError"}
    /\ (op \in GetOps /\ Resolved.e = "" /\ IsData(h0, Resolved.v)) =>
          exc \notin {"TypeError", "builtins.TypeError"}

\* C10: option_root_get with handle_data=True returns a value that holds no
\* Data instance anywhere, whether the stored value is a tree with Data
\* elements or a Data whose payload is such a tree; a disabled top-level
\* value yields None.
C10_ReturnsPlainValue ==
    (op = "option_root_get" /\ exc = "") =>
        /\ ~HasData(heap, ret)
        /\ IsDisabledData(h0, Resolved.v) => ret = None

-----------------------------------------------------------------------------
(* Properties of the mergers (merger.py) *)

RECURSIVE AbsentPaths(_, _, _, _), ConflictPaths(_, _, _, _)

\* The paths of the keys of nxt, at any depth of nested mappings, that the
\* corresponding mapping of base lacks.
AbsentPaths(h, path, base, nxt) ==
    IF ~(IsMapping(h, base) /\ IsMapping(h, nxt)) THEN {}
    ELSE UNION { IF ~HasKey(h[base.n], h[nxt.n].keys[i])
                 THEN { Append(path, h[nxt.n].keys[i]) }
                 ELSE AbsentPaths(h, Append(path, h[nxt.n].keys[i]),
                                  GetItem(h[base.n], h[nxt.n].keys[i]), h[nxt.n].vals[i])
                 : i \in 1..Len(h[nxt.n].keys) }

\* The paths at which nxt and base hold values of types neither of which is
\* the other's subclass.
ConflictPaths(h, path, base, nxt) ==
    IF ~(IsInstance(h, base, TypeOf(h, nxt)) \/ IsInstance(h, nxt, TypeOf(h, base)))
    THEN { path }
    ELSE IF ~(IsMapping(h, base) /\ IsMapping(h, nxt)) THEN {}
    ELSE UNION { IF ~HasKey(h[base.n], h[nxt.n].keys[i]) THEN {}
                 ELSE ConflictPaths(h, Append(path, h[nxt.n].keys[i]),
                                    GetItem(h[base.n], h[nxt.n].keys[i]), h[nxt.n].vals[i])
                 : i \in 1..Len(h[nxt.n].keys) }

\* C4: MergerNoCreate.merge(base, incoming) raises OptionError naming the
\* dotted path whenever incoming has, at any depth of nested mappings, a key
\* the corresponding mapping of base lacks; with no such key it merges like
\* Merger.
C4_StrictMergeRaises ==
    op = "MergerNoCreate" =>
        IF AbsentPaths(h0, <<>>, store.base, store.nxt) # {}
        THEN exc = "OptionError"
             /\ excPath \in AbsentPaths(h0, <<>>, store.base, store.nxt)
        ELSE /\ exc = merge(h0, "Merger", store.base, store.nxt).e
             /\ heap = merge(h0, "Merger", store.base, store.nxt).h
             /\ ret = merge(h0, "Merger", store.base, store.nxt).v

\* C4 amended: with such a key, MergerNoCreate.merge raises OptionError
\* naming the path of one, or, when base and incoming hold values of
\* conflicting types at some path, MergeError naming such a path; with no
\* such key it merges like Merger.
C4_StrictMergeRaisesUnlessConflict ==
    op = "MergerNoCreate" =>
        IF AbsentPaths(h0, <<>>, store.base, store.nxt) # {}
        THEN \/ exc = "OptionError"
                /\ excPath \in AbsentPaths(h0, <<>>, store.base, store.nxt)
             \/ exc = "MergeError"
                /\ excPath \in ConflictPaths(h0, <<>>, store.base, store.nxt)
        ELSE /\ exc = merge(h0, "Merger", store.base, store.nxt).e
             /\ heap = merge(h0, "Merger", store.base, store.nxt).h
             /\ ret = merge(h0, "Merger", store.base, store.nxt).v

\* C4 witness: a strict merge raised OptionError for a key absent two
\* mappings deep.
C4_Witness ==
    /\ op = "MergerNoCreate"
    /\ exc = "OptionError"
    /\ Len(excPath) = 2
    /\ excPath \in AbsentPaths(h0, <<>>, store.base, store.nxt)

-----------------------------------------------------------------------------
(* Properties of the filtered patches (jsonpatch.py) *)

\* v is the str field or is among the elements of the list field
InField(h, field, v) ==
    IF IsInstance(h, field, "str") THEN field = v ELSE InList(h, field, v)

\* Every populated field among names/sources/instances contains the
\* document's attribute, and a populated callables has a callable that
\* returns true for the document.
FieldsAccept(h, names, sources, instances, callables, object) ==
    /\ names # None =>
          IsInstance(h, object, "Object") /\ InField(h, names, h[object.n].attrs.name)
    /\ sources # None =>
          IsInstance(h, object, "Object") /\ InField(h, sources, h[object.n].attrs.source)
    /\ instances # None =>
          IsInstance(h, object, "Object")
          /\ InField(h, instances, h[object.n].attrs.instance)
    /\ callables # None =>
          \E i \in 1..Len(h[callables.n].vals) : call(h, h[callables.n].vals[i], object)

\* The filter accepts the document: an ObjectFilter or a dict by its fields,
\* a callable by what it returns.
FilterAccepts(h, filter, object) ==
    IF IsInstance(h, filter, "ObjectFilterBase")
    THEN FieldsAccept(h, Attr(h, filter, "names"), Attr(h, filter, "sources"),
                      Attr(h, filter, "instances"), Attr(h, filter, "callables"), object)
    ELSE IF IsMapping(h, filter)
    THEN FieldsAccept(h, DictGetOrNone(h, filter, "names"),
                      DictGetOrNone(h, filter, "sources"),
                      DictGetOrNone(h, filter, "instances"),
                      DictGetOrNone(h, filter, "callables"), object)
    ELSE filter.k = "function" /\ call(h, filter, object)

\* At least one filter of the filter set accepts the document.
SomeFilterAccepts(h, filters, object) ==
    /\ filters # None
    /\ \E i \in 1..Len(h[filters.n].vals) : FilterAccepts(h, h[filters.n].vals[i], object)

RECURSIVE PatchedWhere(_, _, _, _, _, _), PatchedWhere_next(_, _, _, _, _, _)

PatchedWhere_next(a, items, jsonpatches, i, j, noneAccepts) ==
    IF a.e # "" THEN a
    ELSE PatchedWhere(a.h, items, jsonpatches, i, j + 1, noneAccepts)

\* The documents once, document by document and spec by spec, the
\* operations of a spec are applied to a document exactly when a filter of
\* the spec accepts it (or, with noneAccepts, the spec has no filter set).
PatchedWhere(h, items, jsonpatches, i, j, noneAccepts) ==
    IF i > Len(h[items.n].vals) THEN Ok(h, items)
    ELSE IF j > Len(h[jsonpatches.n].vals)
    THEN PatchedWhere(h, items, jsonpatches, i + 1, 1, noneAccepts)
    ELSE IF \/ noneAccepts /\ Attr(h, h[jsonpatches.n].vals[j], "filters") = None
            \/ SomeFilterAccepts(h, Attr(h, h[jsonpatches.n].vals[j], "filters"),
                                 h[items.n].vals[i])
    THEN PatchedWhere_next(
             KGJsonPatchExt_apply(h, Attr(h, h[jsonpatches.n].vals[j], "patches"),
                                  h[items.n].vals[i], 1),
             items, jsonpatches, i, j, noneAccepts)
    ELSE PatchedWhere(h, items, jsonpatches, i, j + 1, noneAccepts)

ApplyReturned ==
    op = "FilterJSONPatches_Apply" /\ exc = "" /\ docs.jsonpatches # None

\* C5: when FilterJSONPatches_Apply returns, the operations of a patch spec
\* have been applied to a document if and only if at least one filter of the
\* spec's filter set accepts the document (an ObjectFilter accepting iff
\* every populated field contains the document's attribute and a populated
\* callables has one that returns true); other documents are unchanged.
C5_AppliedIffAccepted ==
    ApplyReturned =>
        /\ PatchedWhere(h0, docs.items, docs.jsonpatches, 1, 1, FALSE).e = ""
        /\ TreeOf(heap, ret)
             = TreeOf(PatchedWhere(h0, docs.items, docs.jsonpatches, 1, 1, FALSE).h,
                      docs.items)

\* C5 amended: ... if and only if the spec's filter set is None or at least
\* one of its filters accepts the document.
C5_AppliedIffAcceptedOrNoFilters ==
    ApplyReturned =>
        /\ PatchedWhere(h0, docs.items, docs.jsonpatches, 1, 1, TRUE).e = ""
        /\ TreeOf(heap, ret)
             = TreeOf(PatchedWhere(h0, docs.items, docs.jsonpatches, 1, 1, TRUE).h,
                      docs.items)

\* C5 witness: a spec with an ObjectFilter on names was applied to two
\* documents, of which the accepted one changed and the other did not.
C5_Witness ==
    /\ ApplyReturned
    /\ Len(h0[docs.items.n].vals) = 2
    /\ Len(h0[docs.jsonpatches.n].vals) = 1
    /\ Attr(h0, h0[docs.jsonpatches.n].vals[1], "filters") # None
    /\ \E f \in 1..Len(h0[Attr(h0, h0[docs.jsonpatches.n].vals[1], "filters").n].vals) :
          /\ IsInstance(h0, h0[Attr(h0, h0[docs.jsonpatches.n].vals[1], "filters").n].vals[f],
                        "ObjectFilter")
          /\ Attr(h0, h0[Attr(h0, h0[docs.jsonpatches.n].vals[1], "filters").n].vals[f],
                  "names") # None
    /\ TreeOf(heap, h0[docs.items.n].vals[1]) # TreeOf(h0, h0[docs.items.n].vals[1])
    /\ TreeOf(heap, h0[docs.items.n].vals[2]) = TreeOf(h0, h0[docs.items.n].vals[2])
    /\ ~SomeFilterAccepts(h0, Attr(h0, h0[docs.jsonpatches.n].vals[1], "filters"),
                          h0[docs.items.n].vals[2])

-----------------------------------------------------------------------------
(* Properties of option resolution (options.py) *)

RECURSIVE PresentAt(_, _, _, _), LookupAt(_, _, _, _)

\* The tree d has a value at the dotted name: every chunk from the i-th on is
\* a key of the mapping reached so far.
PresentAt(h, d, chunks, i) ==
    \/ i > Len(chunks)
    \/ /\ IsMapping(h, d)
       /\ HasKey(h[d.n], chunks[i])
       /\ PresentAt(h, GetItem(h[d.n], chunks[i]), chunks, i + 1)

\* The value the tree d has at the dotted name
LookupAt(h, d, chunks, i) ==
    IF i > Len(chunks) THEN d
    ELSE LookupAt(h, GetItem(h[d.n], chunks[i]), chunks, i + 1)

\* The store is schema-bound and the schema defines an OptionDef at the name.
DefinedAt ==
    /\ op \in GetOps
    /\ store.defined_options # None
    /\ PresentAt(h0, store.defined_options, split(arg), 1)
    /\ IsInstance(h0, LookupAt(h0, store.defined_options, split(arg), 1), "OptionDef")

Definition == LookupAt(h0, store.defined_options, split(arg), 1)

\* A value is set in options at the name.
IsSet == store.options # None /\ PresentAt(h0, store.options, split(arg), 1)

\* The value set at the name, or else the definition itself
RawValue == IF IsSet THEN LookupAt(h0, store.options, split(arg), 1) ELSE Definition

\* ... an OptionDef being replaced by its default_value
SetOrDefault ==
    IF IsInstance(h0, RawValue, "OptionDef") THEN Attr(h0, RawValue, "default_value")
    ELSE RawValue

\* C11: for a schema-bound store, option_root_get(name) resolves from the
\* value set in options at the name when one is present and otherwise from
\* the definition's default_value: when that value needs no root or computed
\* substitution, the call returns it as it is (handle_data=False) or
\* resolved (handle_data=True), or rejects it in the type check.
C11_ResolvesSetValueOrDefault ==
    (DefinedAt /\ ~IsInstance(h0, RawValue, "OptionRoot")
               /\ ~IsInstance(h0, SetOrDefault, "OptionValue")) =>
        IF /\ ~IsData(h0, SetOrDefault)
           /\ ~is_allowed_types(h0, SetOrDefault, Attr(h0, Definition, "allowed_types"),
                                Attr(h0, Definition, "required"))
        THEN exc \in {"TypeError", "builtins.TypeError"}
        ELSE /\ op = "option_root_get_raw" => exc = "" /\ ret = SetOrDefault
             /\ op = "option_root_get" =>
                   /\ exc = DataClean(h0, SetOrDefault, FALSE).e
                   /\ exc = "" =>
                         TreeOf(heap, ret) = TreeOf(DataClean(h0, SetOrDefault, FALSE).h,
                                                    DataClean(h0, SetOrDefault, FALSE).v)

\* The name an OptionRoot set at the name refers to, and whether the root
\* store, which has no schema, has a value there.
RootName == split(Attr(h0, RawValue, "name"))
RootIsSet ==
    PresentAt(h0, Attr(h0, store.root_options, "options"), RootName, 1)
RootValue == LookupAt(h0, Attr(h0, store.root_options, "options"), RootName, 1)

\* C12: when the value set at the name is OptionRoot(n), option_root_get
\* goes on with root_options.value_get(n) in its place (here a plain value or
\* a Data, which the type check then accepts or rejects); with no
\* root_options it raises the library's TypeError and returns nothing.
C12_RootSubstitution ==
    (DefinedAt /\ IsInstance(h0, RawValue, "OptionRoot")) =>
        IF store.root_options = None THEN exc = "TypeError" /\ ret = None
        ELSE IF ~RootIsSet THEN exc = "OptionError"
        ELSE IF /\ ~IsData(h0, RootValue)
                /\ ~is_allowed_types(h0, RootValue, Attr(h0, Definition, "allowed_types"),
                                     Attr(h0, Definition, "required"))
        THEN exc \in {"TypeError", "builtins.TypeError"}
        ELSE /\ op = "option_root_get_raw" => exc = "" /\ ret = RootValue
             /\ op = "option_root_get" =>
                   /\ exc = DataClean(h0, RootValue, FALSE).e
                   /\ exc = "" =>
                         TreeOf(heap, ret) = TreeOf(DataClean(h0, RootValue, FALSE).h,
                                                    DataClean(h0, RootValue, FALSE).v)

-----------------------------------------------------------------------------
(* Properties of the permissive merger (merger.py) *)

\* C13: when Merger.merge(base, incoming) returns for a base that is a
\* mapping or a sequence, the value returned is the base object itself and
\* the base holds the merged content (for a sequence, its elements followed
\* by the incoming ones).
C13_MergeReturnsBase ==
    (op = "Merger" /\ exc = "" /\ IsContainer(h0, store.base)) =>
        /\ ret = store.base
        /\ IsSequence(h0, store.base) =>
              heap[store.base.n].vals = h0[store.base.n].vals \o h0[store.nxt.n].vals

\* The sequences merged by a merge of base and nxt: the two themselves, or
\* those under the same key of the two mappings, as <<base's, nxt's, result's>>.
MergedSequences ==
    (IF IsSequence(h0, store.base) /\ IsSequence(h0, store.nxt)
     THEN { <<store.base, store.nxt, ret>> } ELSE {})
    \cup (IF IsMapping(h0, store.base) /\ IsMapping(h0, store.nxt)
          THEN { <<GetItem(h0[store.base.n], k), GetItem(h0[store.nxt.n], k),
                   GetItem(heap[ret.n], k)>> :
                 k \in { k \in {"a", "b"} :
                           /\ HasKey(h0[store.base.n], k) /\ HasKey(h0[store.nxt.n], k)
                           /\ IsSequence(h0, GetItem(h0[store.base.n], k))
                           /\ IsSequence(h0, GetItem(h0[store.nxt.n], k)) } }
          ELSE {})

\* C14: when Merger.merge returns, every pair of sequences it merged, at the
\* top or under the same key of two mappings, gave a sequence of the
\* elements of the base's followed by the elements of the incoming one:
\* all of them, in order, duplicates kept, each element as it was.
C14_SequencesConcatenate ==
    (op = "Merger" /\ exc = "") =>
        \A m \in MergedSequences :
            /\ IsSequence(heap, m[3])
            /\ heap[m[3].n].vals = h0[m[1].n].vals \o h0[m[2].n].vals
            /\ TreeOf(heap, m[3]).sub = TreeOf(h0, m[1]).sub \o TreeOf(h0, m[2]).sub

\* C14 witness: two sequences with an element in common were merged under
\* the same key of two mappings, the base's holding two elements.
C14_Witness ==
    /\ op = "Merger"
    /\ exc = ""
    /\ IsMapping(h0, store.base)
    /\ \E m \in MergedSequences :
          /\ Len(h0[m[1].n].vals) = 2
          /\ Len(h0[m[2].n].vals) >= 1
          /\ h0[m[1].n].vals[1] = h0[m[2].n].vals[1]
          /\ h0[m[1].n].vals[2] # h0[m[2].n].vals[1]

\* The positions, in b's order, of the keys that b has and a lacks
NewKeys(a, b) ==
    SelectSeq([j \in 1..Len(b.keys) |-> j],
              LAMBDA j : \A i \in 1..Len(a.keys) : a.keys[i] # b.keys[j])

RECURSIVE MergedTree(_, _)

\* What merging the tree b into the tree a gives, when nothing conflicts:
\* two mappings give the keys of a in a's order followed by the keys only b
\* has in b's order, a key of both holding the merge of its two values and
\* any other key its value; two sequences give a's elements then b's; any
\* other pair gives b.
MergedTree(a, b) ==
    IF a.kind = "dict" /\ b.kind = "dict"
    THEN Lit("dict", 0,
             a.keys \o [x \in 1..Len(NewKeys(a, b)) |-> b.keys[NewKeys(a, b)[x]]],
             [i \in 1..Len(a.keys) |->
                 IF \E j \in 1..Len(b.keys) : b.keys[j] = a.keys[i]
                 THEN MergedTree(a.sub[i],
                                 b.sub[CHOOSE j \in 1..Len(b.keys) : b.keys[j] = a.keys[i]])
                 ELSE a.sub[i]]
             \o [x \in 1..Len(NewKeys(a, b)) |-> b.sub[NewKeys(a, b)[x]]],
             TRUE)
    ELSE IF a.kind = "list" /\ b.kind = "list"
    THEN Lit("list", 0, <<>>, a.sub \o b.sub, TRUE)
    ELSE b

\* C15: when the permissive Merger.merge of two mappings returns, the result
\* is a mapping whose keys are base's keys in base's order followed by the
\* keys only incoming has in incoming's order; a key of both holds the
\* recursive merge of its two values, a key of base alone keeps its value and
\* a key of incoming alone has incoming's value.
C15_MergeUnionOfKeys ==
    (op = "Merger" /\ exc = "" /\ IsMapping(h0, store.base) /\ IsMapping(h0, store.nxt)) =>
        /\ IsMapping(heap, ret)
        /\ TreeOf(heap, ret) = MergedTree(TreeOf(h0, store.base), TreeOf(h0, store.nxt))
        /\ \A i \in 1..Len(h0[store.base.n].keys) :
              ~HasKey(h0[store.nxt.n], h0[store.base.n].keys[i]) =>
                  heap[ret.n].vals[i] = h0[store.base.n].vals[i]

\* C15 witness: a merge of two mappings returned where base has a key of its
\* own and, under a key of both, a mapping that gained a key from incoming.
C15_Witness ==
    /\ op = "Merger"
    /\ exc = ""
    /\ IsMapping(h0, store.base)
    /\ IsMapping(h0, store.nxt)
    /\ \E i \in 1..Len(h0[store.base.n].keys) :
          ~HasKey(h0[store.nxt.n], h0[store.base.n].keys[i])
    /\ \E i \in 1..Len(h0[store.base.n].keys) :
          /\ HasKey(h0[store.nxt.n], h0[store.base.n].keys[i])
          /\ IsMapping(h0, h0[store.base.n].vals[i])
          /\ IsMapping(heap, heap[ret.n].vals[i])
          /\ Len(heap[heap[ret.n].vals[i].n].keys) > Len(h0[h0[store.base.n].vals[i].n].keys)

-----------------------------------------------------------------------------
(* Properties of both mergers on values that are not merged (merger.py) *)

MergeOps == {"Merger", "MergerNoCreate"}

\* Neither type is the other's subclass.
Unrelated(h, x, y) ==
    ~(IsInstance(h, x, TypeOf(h, y)) \/ IsInstance(h, y, TypeOf(h, x)))

\* The two values are not two sequences and not two mappings.
NotMerged(h, x, y) ==
    /\ ~(IsSequence(h, x) /\ IsSequence(h, y))
    /\ ~(IsMapping(h, x) /\ IsMapping(h, y))

\* The pairs of values a merge that returned has met at the top or under the
\* same key of the two mappings, as <<base's, incoming's, result's>>.
MetPairs ==
    { <<store.base, store.nxt, ret>> }
    \cup (IF IsMapping(h0, store.base) /\ IsMapping(h0, store.nxt)
          THEN { <<GetItem(h0[store.base.n], k), GetItem(h0[store.nxt.n], k),
                   GetItem(heap[ret.n], k)>> :
                 k \in { k \in {"a", "b"} :
                           HasKey(h0[store.base.n], k) /\ HasKey(h0[store.nxt.n], k) } }
          ELSE {})

\* C16: a merge by Merger or MergerNoCreate that meets two values of
\* unrelated types raises MergeError 'Type conflict' naming their dotted
\* path (the strict merger may raise OptionError for an unknown key
\* before it meets them), and MergeError is raised for such a pair only;
\* values of related types that are not two sequences or two mappings give
\* the incoming value; 'Merge fallback' is never raised.
C16_TypeConflictOrOverride ==
    op \in MergeOps =>
        /\ exc # "MergeError fallback"
        /\ exc = "MergeError" => excPath \in ConflictPaths(h0, <<>>, store.base, store.nxt)
        /\ ConflictPaths(h0, <<>>, store.base, store.nxt) # {} =>
              exc \in (IF op = "Merger" THEN {"MergeError"}
                       ELSE {"MergeError", "OptionError"})
        /\ exc = "" =>
              \A m \in MetPairs :
                  NotMerged(h0, m[1], m[2]) =>
                      ~Unrelated(h0, m[1], m[2]) /\ m[3] = m[2]

\* C16 witness: a merge raised the type conflict for None against a mapping
\* under the key 'a'.
C16_Witness ==
    /\ op \in MergeOps
    /\ exc = "MergeError"
    /\ excPath = <<"a">>
    /\ IsMapping(h0, store.base)
    /\ GetItem(h0[store.base.n], "a") = None
    /\ IsMapping(h0, GetItem(h0[store.nxt.n], "a"))

-----------------------------------------------------------------------------
(* The string-merge specification: the patch operation 'merge' on strings *)

\* The strings under test: every class of string with every text
StrValues == { [k |-> c, n |-> t] : c \in StrClasses, t \in 1..MaxText }

InitStrMerge_built(b, base, nxt) ==
    /\ heap = b.h
    /\ h0 = b.h
    /\ docs = [base |-> base, nxt |-> nxt, doc |-> b.vs[1], incoming |-> b.vs[2]]

\* A document {'s': base} and, for a merge at the root, a value {'s': nxt}
InitStrMerge ==
    /\ \E base \in StrValues, nxt \in StrValues :
          InitStrMerge_built(BuildAll(<<>>, <<DictLit(<<"s">>, <<ScalarLit(base)>>),
                                              DictLit(<<"s">>, <<ScalarLit(nxt)>>)>>),
                             base, nxt)
    /\ cur = None
    /\ op = "init"
    /\ arg = None
    /\ ret = None
    /\ exc = ""
    /\ excPath = <<>>
    /\ calls = 0
    /\ store = NoStore

\* jsonpatch_merge.merge(base, nxt)
CallJsonpatchMerge ==
    /\ op = "init"
    /\ "doc" \in DOMAIN docs
    /\ Returned("jsonpatch_merge", docs.nxt, jsonpatch_merge(heap, docs.base, docs.nxt), TRUE)
    /\ UNCHANGED <<store, docs>>

\* {'op': 'merge', 'path': '/s', 'value': nxt} on the document
CallMergeOperation ==
    /\ op = "init"
    /\ "doc" \in DOMAIN docs
    /\ Returned("merge /s", docs.nxt,
                KGMergeOperation_apply_merge(heap, docs.doc, <<"s">>, docs.nxt), TRUE)
    /\ UNCHANGED <<store, docs>>

\* {'op': 'merge', 'path': '', 'value': {'s': nxt}} on the document
CallMergeOperationRoot ==
    /\ op = "init"
    /\ "doc" \in DOMAIN docs
    /\ Returned("merge", docs.incoming,
                KGMergeOperation_apply_merge(heap, docs.doc, <<>>, docs.incoming), TRUE)
    /\ UNCHANGED <<store, docs>>

NextStrMerge == CallJsonpatchMerge \/ CallMergeOperation \/ CallMergeOperationRoot

SpecStrMerge == InitStrMerge /\ [][NextStrMerge]_vars

-----------------------------------------------------------------------------
(* Properties of the patch operation 'merge' on strings (private/jsonpatch.py) *)

StrMergeOps == {"jsonpatch_merge", "merge /s", "merge"}

\* The string the merge gave: what jsonpatch_merge.merge returned, or what
\* the document holds at 's' after the operation
StrMerged == IF op = "jsonpatch_merge" THEN ret ELSE GetItem(heap[docs.doc.n], "s")

\* The classes HelperStrNewInstance knows
KnownHelperStr ==
    {"QuotedStr", "SingleQuotedStr", "DoubleQuotedStr", "FoldedStr", "LiteralStr"}

\* C17: in the patch operation 'merge', a HelperStr base with a plain str
\* incoming gives the incoming text in the base's class; a plain base with a
\* HelperStr incoming, two HelperStr of different classes, and two plain
\* strings give the incoming value.
C17_StrMergeKeepsTag ==
    op \in StrMergeOps =>
        /\ exc = ""
        /\ StrMerged = IF docs.base.k # "str" /\ docs.nxt.k = "str"
                       THEN [k |-> docs.base.k, n |-> docs.nxt.n]
                       ELSE docs.nxt

\* C17 amended: ... a base of one of the classes QuotedStr, SingleQuotedStr,
\* DoubleQuotedStr, FoldedStr and LiteralStr with a plain str incoming gives
\* the incoming text in the base's class; a base of class HelperStr itself
\* with a plain str incoming raises InvalidParamError and leaves the base in
\* place; every other pair of strings gives the incoming value.
C17_StrMergeKeepsKnownTag ==
    op \in StrMergeOps =>
        IF docs.base.k = "HelperStr" /\ docs.nxt.k = "str"
        THEN exc = "InvalidParamError" /\ heap = h0
        ELSE /\ exc = ""
             /\ StrMerged = IF docs.base.k \in KnownHelperStr /\ docs.nxt.k = "str"
                            THEN [k |-> docs.base.k, n |-> docs.nxt.n]
                            ELSE docs.nxt

\* C17 witness: the operation at '/s' merged a plain string into a QuotedStr
\* of another text.
C17_Witness ==
    /\ op = "merge /s"
    /\ exc = ""
    /\ docs.base.k = "QuotedStr"
    /\ docs.nxt.k = "str"
    /\ docs.base.n # docs.nxt.n
    /\ GetItem(heap[docs.doc.n], "s") = [k |-> "QuotedStr", n |-> docs.nxt.n]

-----------------------------------------------------------------------------
(* The lookup specification: dotted names are looked up in a tree (util.py) *)

\* What a tree holds where a name leads: scalars, strings whose text holds a
\* chunk ('c', 'a.b') or none, lists with and without a chunk, mappings
LookupLeaves ==
    { NoneLit, ScalarLit(IntV(1)), ScalarLit(StrV(1)), ScalarLit(NameStr(3)),
      ScalarLit(NameStr(2)), ListLit(<<>>), ListLit(<<ScalarLit(NameStr(3))>>),
      ListLit(<<ScalarLit(IntV(1))>>), DictLit(<<>>, <<>>),
      ValueDataLit(ScalarLit(IntV(1)), TRUE) }

LookupTrees ==
    { DictLit(<<"a">>, <<x>>) : x \in LookupLeaves }
    \cup { DictLit(<<"a">>, <<DictLit(<<"b">>, <<x>>)>>) : x \in LookupLeaves }
    \cup { DictLit(<<"c", "a">>, <<x, DictLit(<<"c">>, <<x>>)>>) : x \in LookupLeaves }
    \cup { t \in LitsUpTo(MaxSize - 1) : t.kind = "dict" }

InitLookup_built(b) ==
    /\ heap = b.h
    /\ h0 = b.h
    /\ store = [tree |-> b.v]

InitLookup ==
    /\ \E t \in LookupTrees : InitLookup_built(Build(<<>>, t))
    /\ cur = None
    /\ op = "init"
    /\ arg = None
    /\ ret = None
    /\ exc = ""
    /\ excPath = <<>>
    /\ calls = 0
    /\ docs = NoDocs

\* dict_get_value(tree, name)
CallDictGetValue ==
    /\ op = "init"
    /\ "tree" \in DOMAIN store
    /\ \E i \in 1..Len(OptionNames) :
          Returned("dict_get_value", NameStr(i),
                   dict_get_value(heap, store.tree, OptionNames[i], 1), TRUE)
    /\ UNCHANGED <<store, docs>>

\* dict_has_name(tree, name)
CallDictHasName ==
    /\ op = "init"
    /\ "tree" \in DOMAIN store
    /\ \E i \in 1..Len(OptionNames) :
          Returned("dict_has_name", NameStr(i),
                   dict_has_name(heap, store.tree, OptionNames[i], 1), TRUE)
    /\ UNCHANGED <<store, docs>>

NextLookup == CallDictGetValue \/ CallDictHasName

SpecLookup == InitLookup /\ [][NextLookup]_vars

-----------------------------------------------------------------------------
(* Properties of the dotted-name lookup (util.py) *)

\* C18: for a tree and a dotted name whose path cannot be followed (a
\* segment the current mapping lacks, or an intermediate value that is no
\* mapping), dict_get_value raises OptionError and dict_has_name returns
\* False; neither raises any other kind of error on any name.
C18_LookupFailsCleanly ==
    /\ (op = "dict_get_value" /\ ~PresentAt(h0, store.tree, split(arg), 1)) =>
          exc = "OptionError"
    /\ (op = "dict_has_name" /\ ~PresentAt(h0, store.tree, split(arg), 1)) =>
          exc = "" /\ ret = False
    /\ op \in {"dict_get_value", "dict_has_name"} => exc \in {"", "OptionError"}

-----------------------------------------------------------------------------
(* Properties of filters without fields (jsonpatch.py) *)

\* The filter has none of names, sources, instances, callables: an
\* ObjectFilter built with no arguments, or a dict with none of the keys
UnpopulatedInstance(h, f) ==
    /\ IsInstance(h, f, "ObjectFilterBase")
    /\ \A name \in ObjectFilterFields : Attr(h, f, name) = None
UnpopulatedDict(h, f) ==
    /\ IsMapping(h, f)
    /\ \A name \in ObjectFilterFields : ~HasKey(h[f.n], name)

\* The filter set of the j-th patch spec
FiltersOf(h, j) == Attr(h, h[docs.jsonpatches.n].vals[j], "filters")

\* ObjectFilterCheck has run on a filter set made of one filter that P holds of
CheckedSole(P(_, _)) ==
    /\ op = "ObjectFilterCheck"
    /\ \A j \in 1..Len(h0[docs.jsonpatches.n].vals) :
          /\ FiltersOf(h0, j) # None
          /\ Len(h0[FiltersOf(h0, j).n].vals) = 1
          /\ P(h0, h0[FiltersOf(h0, j).n].vals[1])

\* C19: a filter with none of names/sources/instances/callables populated
\* accepts every document, Object or raw dict, whether it is an ObjectFilter
\* built with no arguments or a dict with none of those keys.
C19_EmptyFilterAccepts ==
    /\ CheckedSole(UnpopulatedInstance) => exc = "" /\ ret = True
    /\ CheckedSole(UnpopulatedDict) => exc = "" /\ ret = True

\* C19, amended: an ObjectFilter built with no arguments accepts every
\* document, Object or raw dict; a dict with none of those keys is no filter,
\* checking it raises InvalidParamError.
C19_EmptyFilterAcceptsDictRaises ==
    /\ CheckedSole(UnpopulatedInstance) => exc = "" /\ ret = True
    /\ CheckedSole(UnpopulatedDict) => exc = "InvalidParamError"

\* ObjectFilter() has accepted a raw dict
C19_Witness ==
    /\ CheckedSole(UnpopulatedInstance)
    /\ ~IsInstance(h0, arg, "Object")
    /\ ret = True

-----------------------------------------------------------------------------
(* Properties of failing patch operations (jsonpatch.py) *)

\* The operation cannot act on the document: an add without a value, a
\* remove of a key the document lacks
OperationFails(h, operation, item) ==
    \/ operation.op = "add" /\ "value" \notin operation.members
    \/ operation.op = "remove" /\ ~HasKey(h[item.n], operation.key)

\* The document after the operation
Operated(h, operation, item) ==
    IF operation.op = "add" THEN DictSet(h, item.n, operation.key, operation.value)
    ELSE DelEntry(h, item.n, KeyIndex(h[item.n], operation.key))

RECURSIVE UntilFailure(_, _, _, _, _), UntilFailure_ops(_, _, _, _, _, _)

\* The operations of the j-th spec on the i-th document, from the k-th on:
\* stop where one fails, else go on with the next spec
UntilFailure_ops(h, items, jsonpatches, i, j, k) ==
    IF k > Len(h[Attr(h, h[jsonpatches.n].vals[j], "patches").n].vals)
    THEN UntilFailure(h, items, jsonpatches, i, j + 1)
    ELSE IF OperationFails(h, PatchOperations[
                h[Attr(h, h[jsonpatches.n].vals[j], "patches").n].vals[k].n],
                h[items.n].vals[i])
    THEN [h |-> h, failed |-> TRUE]
    ELSE UntilFailure_ops(
             Operated(h, PatchOperations[
                 h[Attr(h, h[jsonpatches.n].vals[j], "patches").n].vals[k].n],
                 h[items.n].vals[i]),
             items, jsonpatches, i, j, k + 1)

\* The documents when, document by document and spec by spec, the
\* operations of the specs that take the document are applied one after the
\* other up to the first that fails, and nothing is done after it
UntilFailure(h, items, jsonpatches, i, j) ==
    IF i > Len(h[items.n].vals) THEN [h |-> h, failed |-> FALSE]
    ELSE IF j > Len(h[jsonpatches.n].vals)
    THEN UntilFailure(h, items, jsonpatches, i + 1, 1)
    ELSE IF \/ Attr(h, h[jsonpatches.n].vals[j], "filters") = None
            \/ SomeFilterAccepts(h, Attr(h, h[jsonpatches.n].vals[j], "filters"),
                                 h[items.n].vals[i])
    THEN UntilFailure_ops(h, items, jsonpatches, i, j, 1)
    ELSE UntilFailure(h, items, jsonpatches, i, j + 1)

\* Every filter of every spec is of an accepted form, so that checking the
\* filters raises nothing
FiltersChecked(h) ==
    \A j \in 1..Len(h[docs.jsonpatches.n].vals) :
        FiltersOf(h, j) # None =>
            \A f \in 1..Len(h[FiltersOf(h, j).n].vals) :
                \/ IsInstance(h, h[FiltersOf(h, j).n].vals[f], "ObjectFilterBase")
                \/ /\ IsMapping(h, h[FiltersOf(h, j).n].vals[f])
                   /\ ~UnpopulatedDict(h, h[FiltersOf(h, j).n].vals[f])
                \/ h[FiltersOf(h, j).n].vals[f].k = "function"

\* FilterJSONPatches_Apply has run on specs of which an operation fails
OperationFailed ==
    /\ op = "FilterJSONPatches_Apply"
    /\ docs.jsonpatches # None
    /\ FiltersChecked(h0)
    /\ UntilFailure(h0, docs.items, docs.jsonpatches, 1, 1).failed

\* That run has left the documents as the operations before the failing one
\* made them: nothing after it applied, nothing before it rolled back
StoppedAtFailure ==
    TreeOf(heap, docs.items)
      = TreeOf(UntilFailure(h0, docs.items, docs.jsonpatches, 1, 1).h, docs.items)

\* C20: when an operation of a patch spec fails on a document,
\* FilterJSONPatches_Apply raises InvalidJsonPatchError; the remaining
\* operations of that spec are not applied to the document, and the operations
\* already applied to it and to earlier documents are not rolled back.
C20_FailureWrappedNoRollback ==
    OperationFailed => exc = "InvalidJsonPatchError" /\ StoppedAtFailure

-----------------------------------------------------------------------------
(* Properties of ConfigDataMerge (data.py) *)

ResolveOps == {"get_value", "DataGetValue", "DataGetValueRaise", "DataClean"}

\* C21: a Data value is never mutated after construction: resolving a
\* ConfigDataMerge with get_value(), directly, through DataGetValue or through
\* an in-place DataClean, leaves its stored payload unchanged, and resolving
\* the same instance twice returns equal trees.
C21_PayloadUnchanged ==
    /\ op \in ResolveOps =>
          \A i \in 1..Len(h0) :
              h0[i].kind = "ConfigDataMerge" =>
                  TreeOf(heap, h0[i].vals[1]) = TreeOf(h0, h0[i].vals[1])
    /\ (op = "get_value" /\ calls = 2 /\ exc = "") => TreeOf(heap, ret) = TreeOf(h0, ret)

-----------------------------------------------------------------------------
(* builder.py: the Builder *)

\* A Builder: an object with the attributes _jsonpatches and _objectnames
BuilderLit == Lit("Builder", 0, <<"_jsonpatches", "_objectnames">>,
                  <<NoneLit, DictLit(<<>>, <<>>)>>, TRUE)

\* self._jsonpatches = patches
jsonpatches(h, self, patches) ==
    Ok(DictSet(h, self.n, "_jsonpatches", patches), self)

\* object_name(name)
object_name(h, self, name) ==
    IF ~HasKey(h[Attr(h, self, "_objectnames").n], name)
    THEN Raise(h, "NotFoundError", <<name>>)
    ELSE Ok(h, GetItem(h[Attr(h, self, "_objectnames").n], name))

RECURSIVE object_names_update(_, _, _, _)
\* self._objectnames.update(names), from the i-th item of names on
object_names_update(h, self, names, i) ==
    IF i > Len(h[names.n].keys) THEN Ok(h, self)
    ELSE object_names_update(
             DictSet(h, Attr(h, self, "_objectnames").n, h[names.n].keys[i],
                     h[names.n].vals[i]),
             self, names, i + 1)

\* object_names_init(names)
object_names_init(h, self, names) == object_names_update(h, self, names, 1)

\* object_names_change that changes the names without looking them up
object_names_change_unchecked(h, self, names, i) == object_names_update(h, self, names, i)

RECURSIVE object_names_change(_, _, _, _)
\* object_names_change(names): for name, value in names.items(), from the
\* i-th item on
object_names_change(h, self, names, i) ==
    IF i > Len(h[names.n].keys) THEN Ok(h, self)
    ELSE IF ~HasKey(h[Attr(h, self, "_objectnames").n], h[names.n].keys[i])
    THEN Raise(h, "InvalidNameError", <<h[names.n].keys[i]>>)
    ELSE object_names_change(
             DictSet(h, Attr(h, self, "_objectnames").n, h[names.n].keys[i],
                     h[names.n].vals[i]),
             self, names, i + 1)

\* The builder under test supports the build 'b'
build_names == {"b"}

\* return FilterJSONPatches_Apply(items=ret, jsonpatches=self._jsonpatches)
build_apply(b, self) ==
    FilterJSONPatches_Apply(b.h, b.v, Attr(b.h, self, "_jsonpatches"))

\* build(*buildnames), where internal_build('b') returns the documents built
build(h, self, buildnames, built) ==
    IF \E i \in 1..Len(buildnames) : buildnames[i] \notin build_names
    THEN Raise(h, "KGException", <<>>)
    ELSE IF buildnames = <<>> THEN build_apply(Build(h, ListLit(<<>>)), self)
    ELSE build_apply(Build(h, built), self)

-----------------------------------------------------------------------------
(* The builder specification: a builder is configured, renamed and built *)

\* The patch specs given to jsonpatches: each adds a key to every document
BuilderPatches ==
    << ListLit(<<FilterJSONPatchLit(ListLit(<<ScalarLit(PatchV(1))>>), NoneLit)>>),
       ListLit(<<FilterJSONPatchLit(ListLit(<<ScalarLit(PatchV(3))>>), NoneLit)>>) >>

\* What internal_build returns
BuiltLits ==
    { ListLit(<<d>>) : d \in DocLits }
    \cup { ListLit(<<ObjectLit(<<>>, <<>>, NameX, SourceS, InstanceI), DictLit(<<>>, <<>>)>>) }

ObjectNames == {"a", "b", "c"}

\* The names a builder registers in its constructor
InitNames ==
    { DictLit(<<>>, <<>>), DictLit(<<"a">>, <<ScalarLit(StrV(1))>>),
      DictLit(<<"a", "b">>, <<ScalarLit(StrV(1)), ScalarLit(StrV(2))>>) }

\* The names a user changes: known ones, unknown ones, and both in either order
ChangeNames ==
    { DictLit(<<>>, <<>>), DictLit(<<"a">>, <<ScalarLit(StrV(3))>>),
      DictLit(<<"c">>, <<ScalarLit(StrV(4))>>),
      DictLit(<<"a", "c">>, <<ScalarLit(StrV(3)), ScalarLit(StrV(4))>>),
      DictLit(<<"c", "a">>, <<ScalarLit(StrV(4)), ScalarLit(StrV(3))>>),
      DictLit(<<"a", "b">>, <<ScalarLit(StrV(3)), ScalarLit(StrV(3))>>) }

\* The calls made in one run
MaxCalls == MaxSize - 1

InitBuilder_built(b, built) ==
    /\ heap = b.h
    /\ h0 = b.h
    /\ store = [builder |-> b.vs[1]]
    /\ docs = [patches |-> <<b.vs[2], b.vs[3]>>, built |-> built, given |-> <<>>,
               names |-> {}]

InitBuilder ==
    /\ \E built \in BuiltLits :
          InitBuilder_built(
              BuildAll(<<>>, <<BuilderLit, BuilderPatches[1], BuilderPatches[2]>>), built)
    /\ cur = None
    /\ op = "init"
    /\ arg = None
    /\ ret = None
    /\ exc = ""
    /\ excPath = <<>>
    /\ calls = 0

CallObjectNamesInit_built(b) ==
    Returned("object_names_init", b.v, object_names_init(b.h, store.builder, b.v), TRUE)

\* builder.object_names_init(names), in the constructor
CallObjectNamesInit ==
    /\ op = "init"
    /\ "builder" \in DOMAIN store
    /\ \E names \in InitNames :
          /\ CallObjectNamesInit_built(Build(heap, names))
          /\ docs' = [docs EXCEPT !.names = { names.keys[i] : i \in 1..Len(names.keys) }]
    /\ UNCHANGED store

CallObjectNamesChange_built(b) ==
    Returned("object_names_change", b.v,
             object_names_change(b.h, store.builder, b.v, 1), TRUE)

\* builder.object_names_change(names)
CallObjectNamesChange ==
    /\ calls < MaxCalls
    /\ "builder" \in DOMAIN store
    /\ \E names \in ChangeNames : CallObjectNamesChange_built(Build(heap, names))
    /\ UNCHANGED <<store, docs>>

\* builder.object_name(name)
CallObjectName ==
    /\ calls < MaxCalls
    /\ "builder" \in DOMAIN store
    /\ \E name \in ObjectNames :
          Returned("object_name", name, object_name(heap, store.builder, name), TRUE)
    /\ UNCHANGED <<store, docs>>

\* builder.jsonpatches(patches)
CallJsonpatches ==
    /\ calls < MaxCalls
    /\ "builder" \in DOMAIN store
    /\ \E i \in 1..Len(docs.patches) :
          /\ Returned("jsonpatches", docs.patches[i],
                      jsonpatches(heap, store.builder, docs.patches[i]), TRUE)
          /\ docs' = [docs EXCEPT !.given = Append(@, docs.patches[i])]
    /\ UNCHANGED store

\* builder.build(*buildnames)
CallBuild ==
    /\ calls < MaxCalls
    /\ "builder" \in DOMAIN store
    /\ \E buildnames \in { <<>>, <<"b">>, <<"x">> } :
          Returned("build", buildnames,
                   build(heap, store.builder, buildnames, docs.built), TRUE)
    /\ UNCHANGED <<store, docs>>

NextBuilder ==
    \/ CallObjectNamesInit
    \/ CallObjectNamesChange
    \/ CallObjectName
    \/ CallJsonpatches
    \/ CallBuild

SpecBuilder == InitBuilder /\ [][NextBuilder]_vars

-----------------------------------------------------------------------------
(* Properties of the Builder (builder.py) *)

RECURSIVE GivenSpecs(_, _)
\* The patch specs of the first n lists given to jsonpatches, in order
GivenSpecs(h, n) ==
    IF n = 0 THEN <<>> ELSE GivenSpecs(h, n - 1) \o h[docs.given[n].n].vals

AllGiven_list(b) ==
    [h |-> Append(b.h, Node("list", <<>>, GivenSpecs(b.h, Len(docs.given)), TRUE)),
     v |-> Ref(Len(b.h) + 1), items |-> b.v]
AllGiven_apply(a) == FilterJSONPatches_Apply(a.h, a.items, a.v)

\* The documents of the build with the specs of every list given applied
BuiltWithAllGiven == AllGiven_apply(AllGiven_list(Build(h0, docs.built)))

\* C22: jsonpatches(patches) adds the given patches to those applied when
\* building: after jsonpatches(p1) and jsonpatches(p2), a build applies the
\* patch specs of both p1 and p2.
C22_BuildAppliesAllGiven ==
    (op = "build" /\ arg = <<"b">> /\ exc = "" /\ Len(docs.given) > 0) =>
        TreeOf(heap, ret) = TreeOf(BuiltWithAllGiven.h, BuiltWithAllGiven.v)

\* The object names the builder holds
ObjectNamesOf(h) == Attr(h, store.builder, "_objectnames")
KeysOf(h, d) == { h[d.n].keys[i] : i \in 1..Len(h[d.n].keys) }

\* C23: object_names_change raises InvalidNameError for any name that is
\* not registered and never creates a key: after any calls the set of object
\* names is the one object_names_init established, and object_name(n)
\* succeeds exactly for those names.
C23_NamesAreThoseOfInit ==
    /\ KeysOf(heap, ObjectNamesOf(heap)) = docs.names
    /\ op = "object_names_change" =>
          /\ exc \in {"", "InvalidNameError"}
          /\ exc = "InvalidNameError" <=> KeysOf(heap, arg) \ docs.names # {}
    /\ op = "object_name" =>
          /\ exc \in {"", "NotFoundError"}
          /\ exc = "" <=> arg \in docs.names

\* A change of a known and an unknown name failed on registered names
C23_Witness ==
    /\ op = "object_names_change"
    /\ exc = "InvalidNameError"
    /\ docs.names # {}
    /\ KeysOf(heap, arg) \cap docs.names # {}

\* C29: if object_names_change(names) raises InvalidNameError, no object
\* name has been changed by that call, also when names lists known names
\* before the unknown one.
C29_FailedChangeChangesNothing ==
    (op = "object_names_change" /\ exc = "InvalidNameError") =>
        TreeOf(heap, ObjectNamesOf(heap)) = TreeOf(h0, ObjectNamesOf(h0))

-----------------------------------------------------------------------------
(* Properties of the order of patching (jsonpatch.py) *)

\* C24: FilterJSONPatches_Apply takes the documents in list order and, for
\* each document, the patch specs in list order with each spec's operations
\* in list order; the filters of a spec are evaluated against the document as
\* the earlier specs of the call left it.
C24_AppliedInOrder ==
    ApplyReturned =>
        /\ ~UntilFailure(h0, docs.items, docs.jsonpatches, 1, 1).failed
        /\ TreeOf(heap, ret)
             = TreeOf(UntilFailure(h0, docs.items, docs.jsonpatches, 1, 1).h, docs.items)

\* A spec whose callable filter asks for the key 'a' was applied to a document
\* that had no 'a' before the spec ahead of it added one
C24_Witness ==
    /\ ApplyReturned
    /\ Len(h0[docs.jsonpatches.n].vals) = 2
    /\ FiltersOf(h0, 2) # None
    /\ h0[FiltersOf(h0, 2).n].vals = <<FunctionV(3)>>
    /\ \E i \in 1..Len(h0[docs.items.n].vals) :
          /\ ~HasKey(h0[h0[docs.items.n].vals[i].n], "a")
          /\ HasKey(heap[h0[docs.items.n].vals[i].n], "a")
          /\ HasKey(heap[h0[docs.items.n].vals[i].n], "p")

-----------------------------------------------------------------------------
(* Properties of the substitutions of option_root_get (options.py) *)

RECURSIVE Followable(_, _, _, _)
\* The dotted name can be looked up in the tree d: it leads through mappings
\* as far as their keys go
Followable(h, d, chunks, i) ==
    \/ i > Len(chunks)
    \/ /\ IsMapping(h, d)
       /\ \/ ~HasKey(h[d.n], chunks[i])
          \/ Followable(h, GetItem(h[d.n], chunks[i]), chunks, i + 1)

RootSchemaOf == Attr(h0, store.root_options, "defined_options")
RootOptionsOf == Attr(h0, store.root_options, "options")

\* The root store has a value for the name of the OptionRoot: without a
\* schema a value set, with a schema a definition
RootHasValue ==
    /\ store.root_options # None
    /\ IF RootSchemaOf = None THEN PresentAt(h0, RootOptionsOf, RootName, 1)
       ELSE /\ PresentAt(h0, RootSchemaOf, RootName, 1)
            /\ IsInstance(h0, LookupAt(h0, RootSchemaOf, RootName, 1), "Option")
            /\ RootOptionsOf # None => Followable(h0, RootOptionsOf, RootName, 1)

\* root_options.value_get(name): the value set, or else the root definition
RootStoreValue ==
    IF RootOptionsOf # None /\ PresentAt(h0, RootOptionsOf, RootName, 1)
    THEN LookupAt(h0, RootOptionsOf, RootName, 1)
    ELSE LookupAt(h0, RootSchemaOf, RootName, 1)

\* First the root dereference, ...
Dereferenced == IF IsInstance(h0, RawValue, "OptionRoot") THEN RootStoreValue ELSE RawValue
\* ... then the default of an OptionDef, ...
Defaulted ==
    IF IsInstance(h0, Dereferenced, "OptionDef") THEN Attr(h0, Dereferenced, "default_value")
    ELSE Dereferenced
\* ... then the value computed from (name, definition): OptionDefaultValue
\* gives the local definition's default, a callable what it returns
Computed ==
    IF TypeOf(h0, Defaulted) = "OptionDefaultValue" THEN Attr(h0, Definition, "default_value")
    ELSE IF TypeOf(h0, Defaulted) = "OptionValueCallable"
    THEN IF Attr(h0, Defaulted, "valuefunc") = FunctionV(4) THEN Definition
         ELSE Attr(h0, Defaulted, "valuefunc")
    ELSE Defaulted

\* option_root_get has a value to substitute in: the lookups succeed
Substitutes ==
    /\ DefinedAt
    /\ store.options # None => Followable(h0, store.options, split(arg), 1)
    /\ IsInstance(h0, RawValue, "OptionRoot") => RootHasValue

\* C25: option_root_get applies its substitutions once each and in the order
\* root dereference, default substitution, computed value: a root value that
\* is an unset OptionDef of the root store gives that definition's default, a
\* default that is an OptionValue is evaluated with (name, definition),
\* OptionDefaultValue gives the local definition's default, and what a
\* computed value returns is not dereferenced or defaulted again.
C25_SubstitutionsOnceInOrder ==
    Substitutes =>
        IF /\ ~IsData(h0, Computed)
           /\ ~is_allowed_types(h0, Computed, Attr(h0, Definition, "allowed_types"),
                                Attr(h0, Definition, "required"))
        THEN exc \in {"TypeError", "builtins.TypeError"}
        ELSE /\ op = "option_root_get_raw" => exc = "" /\ ret = Computed
             /\ op = "option_root_get" =>
                   /\ exc = DataClean(h0, Computed, FALSE).e
                   /\ exc = "" =>
                         TreeOf(heap, ret) = TreeOf(DataClean(h0, Computed, FALSE).h,
                                                    DataClean(h0, Computed, FALSE).v)

\* The option is an OptionRoot, the root store has a schema and no value set
\* for it, and the call returned the default of the root definition
C25_Witness ==
    /\ Substitutes
    /\ op = "option_root_get_raw"
    /\ IsInstance(h0, RawValue, "OptionRoot")
    /\ RootSchemaOf # None
    /\ IsInstance(h0, Dereferenced, "OptionDef")
    /\ exc = ""
    /\ ret = IntV(5)

-----------------------------------------------------------------------------
(* Properties of the merged-in tree (merger.py) *)

\* C26: merging only ever modifies the first argument: Merger.merge(base,
\* incoming) never modifies incoming, and a tree once passed as incoming is
\* not modified by a later merge into the same base.
C26_IncomingNeverModified ==
    /\ op = "Merger" => TreeOf(heap, store.nxt) = TreeOf(h0, store.nxt)
    /\ op = "MergerAgain" =>
          /\ TreeOf(heap, arg) \in SecondIncoming
          /\ TreeOf(heap, store.nxt) = TreeOf(h0, store.nxt)

-----------------------------------------------------------------------------
(* Properties of required options (options.py) *)

\* C27: whenever option_root_get (handle_data=True) returns for a name whose
\* definition has required=True, the value returned is not None, whatever
\* the stored value is, a Data that is disabled or holds None included.
C27_RequiredIsNotNone ==
    (op = "option_root_get" /\ exc = "" /\ DefinedAt
       /\ Attr(h0, Definition, "required") = True) => ret # None

-----------------------------------------------------------------------------
(* Properties of a merge that raises (merger.py) *)

\* C28: if MergerNoCreate.merge(base, incoming) or Merger.merge(base,
\* incoming) raises, base is left exactly as it was before the call, also
\* when the unknown key or the conflict lies in a nested mapping visited
\* after other keys of incoming.
C28_FailedMergeLeavesBase ==
    (op \in {"Merger", "MergerNoCreate"} /\ exc # "") =>
        TreeOf(heap, store.base) = TreeOf(h0, store.base)

-----------------------------------------------------------------------------
(* Properties of a store that has no schema (options.py) *)

\* The store was constructed without defined_options
Schemaless == store.defined_options = None

\* C30: on a store constructed without defined_options, option_root_get
\* raises OptionError for every name, a name that is set in options
\* included, whereas value_get on the same store returns the value stored at
\* a name that is set.
C30_SchemaRequired ==
    /\ (op \in GetOps /\ Schemaless) => exc = "OptionError"
    /\ (op = "value_get" /\ Schemaless /\ IsSet) =>
          /\ exc = ""
          /\ ret = LookupAt(h0, store.options, split(arg), 1)
          /\ heap = h0

\* option_root_get has raised on a schemaless store for a name that is set
C30_Witness ==
    /\ op \in GetOps
    /\ Schemaless
    /\ IsSet
    /\ Len(split(arg)) = 2
    /\ exc = "OptionError"

====
